---- MODULE Spec2Model ----
(***************************************************************************)
(* Verification model of the logic trainer's symbolic engines:             *)
(* the propositional formula engine (logic.ts), the set-expression engine  *)
(* (set-logic.ts) and the input normalizer.                                *)
(*                                                                         *)
(* Every engine is a synchronous pure function.  A specification draws the *)
(* arguments of a call in Init (variable `input`) and its actions apply    *)
(* one exported function each, recording which one (`op`) and what it      *)
(* returned (`out`).                                                       *)
(*                                                                         *)
(* Strings are sequences of UTF-16 code units.  An ASCII code unit is the  *)
(* one-character string itself; a non-ASCII code unit is the string of its *)
(* code point, "U+00AC" for the negation sign (see the Sym definitions).   *)
(***************************************************************************)
EXTENDS Integers, Sequences, FiniteSets, TLC

VARIABLES input, op, out

vars == <<input, op, out>>

(***************************************************************************)
(* Bounds of the model.                                                    *)
(***************************************************************************)
\* largest number of connectives of a formula handed to a rewrite
MaxConn == 2
\* the variable names the rewritten formulas are built from
VarNames == {"A", "B", "C"}
\* largest number of connectives of each side of a compared pair
MaxPairConn == 1
\* the variable names the compared formulas are built from
PairVarNames == {"A", "B"}

(***************************************************************************)
(* FormulaNode (logic.ts): var | not | and | or | imp | iff                *)
(***************************************************************************)
VarNode(n) == [type |-> "var", name |-> n]
UnaryNode(c) == [type |-> "not", child |-> c]
BinaryNode(k, l, r) == [type |-> k, left |-> l, right |-> r]
BinaryKind == {"and", "or", "imp", "iff"}

\* 2^n, the value of 1 << n for 0 <= n < 31
RECURSIVE Pow2(_)
Pow2(n) == IF n = 0 THEN 1 ELSE 2 * Pow2(n - 1)

\* (i & (1 << b)) !== 0
BitSet(i, b) == (i \div Pow2(b)) % 2 = 1

Max(a, b) == IF a > b THEN a ELSE b
Min(a, b) == IF a < b THEN a ELSE b

\* the order Array.prototype.sort() gives single upper-case letters
UpperAZ == <<"A", "B", "C", "D", "E", "F", "G", "H", "I", "J", "K", "L", "M",
             "N", "O", "P", "Q", "R", "S", "T", "U", "V", "W", "X", "Y", "Z">>

\* Array.from(set).sort() for a set of single upper-case letters
SortedNames(S) == SelectSeq(UpperAZ, LAMBDA c : c \in S)

RECURSIVE evaluateFormula(_, _)
evaluateFormula(node, assignment) ==
  CASE node.type = "var" ->
         IF node.name \in DOMAIN assignment THEN assignment[node.name] ELSE FALSE
    [] node.type = "not" -> ~evaluateFormula(node.child, assignment)
    [] node.type = "and" ->
         evaluateFormula(node.left, assignment) /\ evaluateFormula(node.right, assignment)
    [] node.type = "or" ->
         evaluateFormula(node.left, assignment) \/ evaluateFormula(node.right, assignment)
    [] node.type = "imp" ->
         ~evaluateFormula(node.left, assignment) \/ evaluateFormula(node.right, assignment)
    [] node.type = "iff" ->
         evaluateFormula(node.left, assignment) = evaluateFormula(node.right, assignment)
    [] OTHER -> FALSE

RECURSIVE collectVariables(_)
collectVariables(node) ==
  CASE node.type = "var" -> {node.name}
    [] node.type = "not" -> collectVariables(node.child)
    [] node.type \in BinaryKind ->
         collectVariables(node.left) \cup collectVariables(node.right)
    [] OTHER -> {}

\* the assignment built by variables.forEach for row i
RECURSIVE AssignmentRow(_, _, _)
AssignmentRow(variables, i, upto) ==
  IF upto = 0 THEN << >>
  ELSE (variables[upto] :> BitSet(i, Len(variables) - (upto - 1) - 1))
         @@ AssignmentRow(variables, i, upto - 1)

generateAssignmentsTotal(variables) == Max(1, Pow2(Len(variables)))

\* assignments whose first variable is the lowest bit of the row index
generateAssignmentsLowFirst(variables) ==
  [r \in 1..generateAssignmentsTotal(variables) |->
     AssignmentRow([k \in 1..Len(variables) |-> variables[Len(variables) + 1 - k]],
                   r - 1, Len(variables))]

generateAssignments(variables) ==
  [r \in 1..generateAssignmentsTotal(variables) |->
     AssignmentRow(variables, r - 1, Len(variables))]

RECURSIVE containsImplication(_)
containsImplication(node) ==
  IF node.type = "imp" \/ node.type = "iff" THEN TRUE
  ELSE IF node.type = "not" THEN containsImplication(node.child)
  ELSE IF node.type = "and" \/ node.type = "or"
       THEN containsImplication(node.left) \/ containsImplication(node.right)
  ELSE FALSE

RECURSIVE containsIff(_)
containsIff(node) ==
  IF node.type = "iff" THEN TRUE
  ELSE IF node.type = "not" THEN containsIff(node.child)
  ELSE IF node.type = "and" \/ node.type = "or" \/ node.type = "imp"
       THEN containsIff(node.left) \/ containsIff(node.right)
  ELSE FALSE

RECURSIVE eliminateImplications(_)
\* a rewrite of imp that forgets to negate the antecedent
eliminateImplicationsNoNeg(node) ==
  CASE node.type = "var" -> node
    [] node.type = "not" -> UnaryNode(eliminateImplications(node.child))
    [] node.type \in {"and", "or"} ->
         BinaryNode(node.type, eliminateImplications(node.left),
                    eliminateImplications(node.right))
    [] node.type = "imp" ->
         BinaryNode("or", eliminateImplications(node.left),
                    eliminateImplications(node.right))
    [] node.type = "iff" ->
         LET left == eliminateImplications(node.left)
             right == eliminateImplications(node.right)
         IN BinaryNode("and", eliminateImplications(BinaryNode("imp", left, right)),
                       eliminateImplications(BinaryNode("imp", right, left)))
    [] OTHER -> node

eliminateImplications(node) ==
  CASE node.type = "var" -> node
    [] node.type = "not" -> UnaryNode(eliminateImplications(node.child))
    [] node.type \in {"and", "or"} ->
         BinaryNode(node.type, eliminateImplications(node.left),
                    eliminateImplications(node.right))
    [] node.type = "imp" ->
         LET left == eliminateImplications(node.left)
             right == eliminateImplications(node.right)
         IN BinaryNode("or", UnaryNode(left), right)
    [] node.type = "iff" ->
         LET left == eliminateImplications(node.left)
             right == eliminateImplications(node.right)
             leftImp == eliminateImplications(BinaryNode("imp", left, right))
             rightImp == eliminateImplications(BinaryNode("imp", right, left))
         IN BinaryNode("and", leftImp, rightImp)
    [] OTHER -> node

RECURSIVE eliminateIffOnly(_)
\* a rewrite that treats imp like eliminateImplications does
eliminateIffOnlyAlsoImp(node) ==
  CASE node.type = "var" -> node
    [] node.type = "not" -> UnaryNode(eliminateIffOnly(node.child))
    [] node.type \in {"and", "or"} ->
         BinaryNode(node.type, eliminateIffOnly(node.left), eliminateIffOnly(node.right))
    [] node.type = "imp" ->
         BinaryNode("or", UnaryNode(eliminateIffOnly(node.left)),
                    eliminateIffOnly(node.right))
    [] node.type = "iff" ->
         LET left == eliminateIffOnly(node.left)
             right == eliminateIffOnly(node.right)
         IN BinaryNode("and", BinaryNode("imp", left, right),
                       BinaryNode("imp", right, left))
    [] OTHER -> node

eliminateIffOnly(node) ==
  CASE node.type = "var" -> node
    [] node.type = "not" -> UnaryNode(eliminateIffOnly(node.child))
    [] node.type \in {"and", "or", "imp"} ->
         BinaryNode(node.type, eliminateIffOnly(node.left), eliminateIffOnly(node.right))
    [] node.type = "iff" ->
         LET left == eliminateIffOnly(node.left)
             right == eliminateIffOnly(node.right)
         IN BinaryNode("and", BinaryNode("imp", left, right),
                       BinaryNode("imp", right, left))
    [] OTHER -> node

RECURSIVE pushNegation(_, _)
\* a push-down that keeps the flag instead of flipping it under a not
pushNegationNoFlip(node, negate) ==
  IF node.type = "var" THEN (IF negate THEN UnaryNode(node) ELSE node)
  ELSE IF node.type = "not" THEN pushNegation(node.child, negate)
  ELSE IF node.type \in BinaryKind THEN
    LET cleared == IF node.type = "imp" \/ node.type = "iff"
                   THEN eliminateImplications(node) ELSE node
    IN IF cleared.type = "and" THEN
         (IF negate
          THEN BinaryNode("or", pushNegation(cleared.left, TRUE),
                          pushNegation(cleared.right, TRUE))
          ELSE BinaryNode("and", pushNegation(cleared.left, FALSE),
                          pushNegation(cleared.right, FALSE)))
       ELSE IF cleared.type = "or" THEN
         (IF negate
          THEN BinaryNode("and", pushNegation(cleared.left, TRUE),
                          pushNegation(cleared.right, TRUE))
          ELSE BinaryNode("or", pushNegation(cleared.left, FALSE),
                          pushNegation(cleared.right, FALSE)))
       ELSE node
  ELSE node

pushNegation(node, negate) ==
  IF node.type = "var" THEN (IF negate THEN UnaryNode(node) ELSE node)
  ELSE IF node.type = "not" THEN pushNegation(node.child, ~negate)
  ELSE IF node.type \in BinaryKind THEN
    LET cleared == IF node.type = "imp" \/ node.type = "iff"
                   THEN eliminateImplications(node) ELSE node
    IN IF cleared.type = "and" THEN
         (IF negate
          THEN BinaryNode("or", pushNegation(cleared.left, TRUE),
                          pushNegation(cleared.right, TRUE))
          ELSE BinaryNode("and", pushNegation(cleared.left, FALSE),
                          pushNegation(cleared.right, FALSE)))
       ELSE IF cleared.type = "or" THEN
         (IF negate
          THEN BinaryNode("and", pushNegation(cleared.left, TRUE),
                          pushNegation(cleared.right, TRUE))
          ELSE BinaryNode("or", pushNegation(cleared.left, FALSE),
                          pushNegation(cleared.right, FALSE)))
       ELSE node
  ELSE node

negateWithDeMorgan(node) == pushNegation(node, TRUE)

(***************************************************************************)
(* The formulas a call can receive: every tree with at most MaxConn        *)
(* connectives over VarNames.                                              *)
(***************************************************************************)
RECURSIVE FormulasOfSize(_, _)
FormulasOfSize(names, n) ==
  IF n = 0 THEN {VarNode(v) : v \in names}
  ELSE {UnaryNode(c) : c \in FormulasOfSize(names, n - 1)}
       \cup UNION {{BinaryNode(k, l, r) : k \in BinaryKind,
                                         l \in FormulasOfSize(names, a),
                                         r \in FormulasOfSize(names, n - 1 - a)}
                   : a \in 0..(n - 1)}

FormulasUpTo(names, n) == UNION {FormulasOfSize(names, k) : k \in 0..n}

\* does a node of one of the given kinds occur anywhere in the tree
RECURSIVE HasNode(_, _)
HasNode(node, kinds) ==
  \/ node.type \in kinds
  \/ node.type = "not" /\ HasNode(node.child, kinds)
  \/ node.type \in BinaryKind /\ (HasNode(node.left, kinds) \/ HasNode(node.right, kinds))

\* number of nodes of the given kind in the tree
RECURSIVE CountNode(_, _)
CountNode(node, kind) ==
  (IF node.type = kind THEN 1 ELSE 0)
  + (CASE node.type = "not" -> CountNode(node.child, kind)
       [] node.type \in BinaryKind ->
            CountNode(node.left, kind) + CountNode(node.right, kind)
       [] OTHER -> 0)

\* every not node has a variable as its child
RECURSIVE IsNNF(_)
IsNNF(node) ==
  CASE node.type = "var" -> TRUE
    [] node.type = "not" -> node.child.type = "var"
    [] node.type \in BinaryKind -> IsNNF(node.left) /\ IsNNF(node.right)
    [] OTHER -> FALSE

\* the truth value of a formula under a total assignment, by the standard
\* semantics: imp(a,b) = not a or b, iff(a,b) = (a = b)
RECURSIVE Truth(_, _)
Truth(node, a) ==
  CASE node.type = "var" -> a[node.name]
    [] node.type = "not" -> ~Truth(node.child, a)
    [] node.type = "and" -> Truth(node.left, a) /\ Truth(node.right, a)
    [] node.type = "or" -> Truth(node.left, a) \/ Truth(node.right, a)
    [] node.type = "imp" -> (Truth(node.left, a) => Truth(node.right, a))
    [] node.type = "iff" -> (Truth(node.left, a) <=> Truth(node.right, a))

\* the variables that occur in a formula
RECURSIVE VarsOf(_)
VarsOf(node) ==
  CASE node.type = "var" -> {node.name}
    [] node.type = "not" -> VarsOf(node.child)
    [] OTHER -> VarsOf(node.left) \cup VarsOf(node.right)

\* same truth value under every assignment of the variables of both
SameTruth(f, g) ==
  \A a \in [VarsOf(f) \cup VarsOf(g) -> BOOLEAN] : Truth(f, a) = Truth(g, a)

(***************************************************************************)
(* Specification of the rewrite calls.                                     *)
(***************************************************************************)
Init ==
  /\ input \in {[f |-> x] : x \in FormulasUpTo(VarNames, MaxConn)}
  /\ op = "none"
  /\ out = "none"

CallEliminateImplications ==
  /\ op = "none"
  /\ op' = "eliminateImplications"
  /\ out' = eliminateImplications(input.f)
  /\ UNCHANGED input

CallEliminateIffOnly ==
  /\ op = "none"
  /\ op' = "eliminateIffOnly"
  /\ out' = eliminateIffOnly(input.f)
  /\ UNCHANGED input

CallNegateWithDeMorgan ==
  /\ op = "none"
  /\ op' = "negateWithDeMorgan"
  /\ out' = negateWithDeMorgan(input.f)
  /\ UNCHANGED input

Next ==
  \/ CallEliminateImplications
  \/ CallEliminateIffOnly
  \/ CallNegateWithDeMorgan

Spec == Init /\ [][Next]_vars

\* C1: eliminateImplications(f) has no imp and no iff node anywhere and has
\* the truth value of f under every assignment of f's variables.
C1_EliminateImplications ==
  op = "eliminateImplications" =>
    /\ ~HasNode(out, {"imp", "iff"})
    /\ ~containsImplication(out)
    /\ SameTruth(out, input.f)

\* the call has rewritten an iff that contains an imp
C1_Witness ==
  /\ op = "eliminateImplications"
  /\ input.f.type = "iff"
  /\ HasNode(input.f.left, {"imp"})

\* C2: negateWithDeMorgan(f) is equivalent to not(f), has no imp and no iff
\* node, and every not node of it has a variable as its child.
C2_NegateWithDeMorgan ==
  op = "negateWithDeMorgan" =>
    /\ SameTruth(out, UnaryNode(input.f))
    /\ ~HasNode(out, {"imp", "iff"})
    /\ IsNNF(out)

\* the call has negated a negated implication or biconditional (a double
\* negation to cancel and an operator to expand)
C2_Witness ==
  /\ op = "negateWithDeMorgan"
  /\ input.f.type = "not"
  /\ input.f.child.type \in {"imp", "iff"}

\* C3: eliminateIffOnly(f) has no iff node, is equivalent to f and keeps the
\* imp nodes: it has at least the imp nodes of f, and it has an imp node
\* whenever f has an imp or an iff node.
C3_EliminateIffOnly ==
  op = "eliminateIffOnly" =>
    /\ ~HasNode(out, {"iff"})
    /\ ~containsIff(out)
    /\ SameTruth(out, input.f)
    /\ CountNode(out, "imp") >= CountNode(input.f, "imp")
    /\ (~HasNode(input.f, {"iff"}) => out = input.f)
    /\ (HasNode(input.f, {"imp", "iff"}) => HasNode(out, {"imp"}))

\* the call has rewritten a formula with both an imp and an iff node
C3_Witness ==
  /\ op = "eliminateIffOnly"
  /\ HasNode(input.f, {"imp"})
  /\ HasNode(input.f, {"iff"})

(***************************************************************************)
(* Truth tables and the equivalence oracle (logic.ts).                     *)
(***************************************************************************)
\* Array.from(new Set([...collectVariables(l), ...collectVariables(r)])).sort()
unionVariables(left, right) ==
  SortedNames(collectVariables(left) \cup collectVariables(right))

truthTable(ast) ==
  LET variables == SortedNames(collectVariables(ast))
      assignments == generateAssignments(variables)
  IN [variables |-> variables,
      rows |-> [r \in DOMAIN assignments |->
                  [assignment |-> assignments[r],
                   result |-> evaluateFormula(ast, assignments[r])]]]

truthTableEquality(left, right) ==
  LET assignments == generateAssignments(unionVariables(left, right))
      rows == [r \in DOMAIN assignments |->
                 LET leftValue == evaluateFormula(left, assignments[r])
                     rightValue == evaluateFormula(right, assignments[r])
                 IN [assignment |-> assignments[r],
                     left |-> leftValue,
                     right |-> rightValue,
                     matches |-> (leftValue = rightValue)]]
  IN [equal |-> \A r \in DOMAIN rows : rows[r].matches, table |-> rows]

\* an oracle that only looks at the first row of the table
areEquivalentFirstRow(leftAst, rightAst) ==
  LET assignments == generateAssignments(unionVariables(leftAst, rightAst))
  IN evaluateFormula(leftAst, assignments[1]) = evaluateFormula(rightAst, assignments[1])

areEquivalent(leftAst, rightAst) ==
  LET assignments == generateAssignments(unionVariables(leftAst, rightAst))
  IN \A r \in DOMAIN assignments :
       evaluateFormula(leftAst, assignments[r]) = evaluateFormula(rightAst, assignments[r])

PairFormulas == FormulasUpTo(PairVarNames, MaxPairConn)

InitEquiv ==
  /\ \E l \in PairFormulas, r \in PairFormulas : input = [left |-> l, right |-> r]
  /\ op = "none"
  /\ out = "none"

CallAreEquivalent ==
  /\ op = "none"
  /\ op' = "areEquivalent"
  /\ out' = areEquivalent(input.left, input.right)
  /\ UNCHANGED input

CallTruthTableEquality ==
  /\ op = "none"
  /\ op' = "truthTableEquality"
  /\ out' = truthTableEquality(input.left, input.right)
  /\ UNCHANGED input

NextEquiv ==
  \/ CallAreEquivalent
  \/ CallTruthTableEquality

SpecEquiv == InitEquiv /\ [][NextEquiv]_vars

\* C4: areEquivalent(L, R) and truthTableEquality(L, R).equal are the same
\* boolean: true exactly when L and R have the same truth value under every
\* one of the 2^k assignments of the union of their variables; the table has
\* 2^k rows.
C4_EquivalenceOracles ==
  /\ op = "areEquivalent" => out = SameTruth(input.left, input.right)
  /\ op = "truthTableEquality" =>
       /\ out.equal = SameTruth(input.left, input.right)
       /\ out.equal = areEquivalent(input.left, input.right)
       /\ Len(out.table) = Pow2(Cardinality(VarsOf(input.left) \cup VarsOf(input.right)))

\* the oracle has rejected two formulas that differ under one assignment only
C4_Witness ==
  /\ op = "areEquivalent"
  /\ out = FALSE
  /\ Cardinality({a \in [VarsOf(input.left) \cup VarsOf(input.right) -> BOOLEAN] :
                    Truth(input.left, a) # Truth(input.right, a)}) = 1

(***************************************************************************)
(* SetNode (set-logic.ts): var | const | not | union | inter | diff | sym  *)
(***************************************************************************)
SetVarNode(n) == [type |-> "var", name |-> n]
SetConstNode(v) == [type |-> "const", value |-> v]
SetUnaryNode(c) == [type |-> "not", child |-> c]
SetBinaryNode(k, l, r) == [type |-> k, left |-> l, right |-> r]
SetBinaryKind == {"union", "inter", "diff", "sym"}
SetNames == {"A", "B", "C"}

RECURSIVE evalSetExpr(_, _)
\* an evaluator whose difference keeps the points of the right side
evalSetExprDiffAsInter(node, assignment) ==
  CASE node.type = "var" ->
         IF node.name \in DOMAIN assignment THEN assignment[node.name] ELSE FALSE
    [] node.type = "const" -> node.value
    [] node.type = "not" -> ~evalSetExpr(node.child, assignment)
    [] node.type = "union" ->
         evalSetExpr(node.left, assignment) \/ evalSetExpr(node.right, assignment)
    [] node.type = "inter" ->
         evalSetExpr(node.left, assignment) /\ evalSetExpr(node.right, assignment)
    [] node.type = "diff" ->
         evalSetExpr(node.left, assignment) /\ evalSetExpr(node.right, assignment)
    [] node.type = "sym" ->
         LET l == evalSetExpr(node.left, assignment)
             r == evalSetExpr(node.right, assignment)
         IN (l \/ r) /\ ~(l /\ r)
    [] OTHER -> FALSE

evalSetExpr(node, assignment) ==
  CASE node.type = "var" ->
         IF node.name \in DOMAIN assignment THEN assignment[node.name] ELSE FALSE
    [] node.type = "const" -> node.value
    [] node.type = "not" -> ~evalSetExpr(node.child, assignment)
    [] node.type = "union" ->
         evalSetExpr(node.left, assignment) \/ evalSetExpr(node.right, assignment)
    [] node.type = "inter" ->
         evalSetExpr(node.left, assignment) /\ evalSetExpr(node.right, assignment)
    [] node.type = "diff" ->
         evalSetExpr(node.left, assignment) /\ ~evalSetExpr(node.right, assignment)
    [] node.type = "sym" ->
         LET l == evalSetExpr(node.left, assignment)
             r == evalSetExpr(node.right, assignment)
         IN (l \/ r) /\ ~(l /\ r)
    [] OTHER -> FALSE

RECURSIVE collectSetVars(_)
collectSetVars(node) ==
  CASE node.type = "var" -> {node.name}
    [] node.type = "not" -> collectSetVars(node.child)
    [] node.type \in SetBinaryKind ->
         collectSetVars(node.left) \cup collectSetVars(node.right)
    [] OTHER -> {}

\* { A: false, B: false, C: false } after used.forEach has set the listed
\* names from the bits of i (a later entry of the list overwrites an earlier)
RECURSIVE SetAssignmentRow(_, _, _)
SetAssignmentRow(used, i, upto) ==
  IF upto = 0 THEN [n \in SetNames |-> FALSE]
  ELSE [SetAssignmentRow(used, i, upto - 1)
          EXCEPT ![used[upto]] = BitSet(i, Len(used) - (upto - 1) - 1)]

truthTableSet(node, varList) ==
  LET used == varList
      total == Max(1, Pow2(Len(used)))
  IN [r \in 1..total |->
        LET assignment == SetAssignmentRow(used, r - 1, Len(used))
        IN [assignment |-> assignment, value |-> evalSetExpr(node, assignment)]]

\* a variable list taken from the left side only
setPairVarsLeftOnly(left, right) == SortedNames(collectSetVars(left))

\* Array.from(new Set([...collectSetVars(left), ...collectSetVars(right)])).sort()
setPairVars(left, right) ==
  SortedNames(collectSetVars(left) \cup collectSetVars(right))

areSetExprEquivalent(left, right) ==
  LET rowsLeft == truthTableSet(left, setPairVars(left, right))
  IN \A r \in DOMAIN rowsLeft :
       evalSetExpr(right, rowsLeft[r].assignment) = rowsLeft[r].value

isSubset(left, right) ==
  LET rows == truthTableSet(left, setPairVars(left, right))
  IN \A r \in DOMAIN rows : ~rows[r].value \/ evalSetExpr(right, rows[r].assignment)

isDisjoint(left, right) ==
  LET rows == truthTableSet(left, setPairVars(left, right))
  IN \A r \in DOMAIN rows : ~(rows[r].value /\ evalSetExpr(right, rows[r].assignment))

\* rows built with the last listed set as the most significant bit
assignmentsForSetsLsbFirst(sets) ==
  [r \in 1..Pow2(Len(sets)) |->
     [n \in SetNames |-> \E idx \in 1..Len(sets) : sets[idx] = n /\ BitSet(r - 1, idx - 1)]]

assignmentsForSets(sets) ==
  [r \in 1..Pow2(Len(sets)) |-> SetAssignmentRow(sets, r - 1, Len(sets))]

\* mask | (1 << idx)
OrBit(mask, idx) == IF BitSet(mask, idx) THEN mask ELSE mask + Pow2(idx)

\* the mask after assignments.forEach has visited the first `upto` rows
RECURSIVE RegionMaskUpTo(_, _, _)
RegionMaskUpTo(node, assignments, upto) ==
  IF upto = 0 THEN 0
  ELSE LET mask == RegionMaskUpTo(node, assignments, upto - 1)
       IN IF evalSetExpr(node, assignments[upto]) THEN OrBit(mask, upto - 1) ELSE mask

\* a mask that never marks the region outside every set
computeRegionMaskFromExprNoOutside(node, sets) ==
  2 * (RegionMaskUpTo(node, assignmentsForSets(sets), Pow2(Len(sets))) \div 2)

computeRegionMaskFromExpr(node, sets) ==
  LET assignments == assignmentsForSets(sets)
  IN RegionMaskUpTo(node, assignments, Len(assignments))

(***************************************************************************)
(* The set expressions a call can receive.                                 *)
(***************************************************************************)
RECURSIVE SetExprsOfSize(_, _)
SetExprsOfSize(leaves, n) ==
  IF n = 0 THEN leaves
  ELSE {SetUnaryNode(c) : c \in SetExprsOfSize(leaves, n - 1)}
       \cup UNION {{SetBinaryNode(k, l, r) : k \in SetBinaryKind,
                                            l \in SetExprsOfSize(leaves, a),
                                            r \in SetExprsOfSize(leaves, n - 1 - a)}
                   : a \in 0..(n - 1)}

SetExprsUpTo(leaves, n) == UNION {SetExprsOfSize(leaves, k) : k \in 0..n}

\* membership of a point in the set an expression denotes, the point being
\* given by the sets it lies in: union = or, inter = and, diff = and-not,
\* sym = exclusive or, not = complement
RECURSIVE Member(_, _)
Member(node, a) ==
  CASE node.type = "var" -> a[node.name]
    [] node.type = "const" -> node.value
    [] node.type = "not" -> ~Member(node.child, a)
    [] node.type = "union" -> Member(node.left, a) \/ Member(node.right, a)
    [] node.type = "inter" -> Member(node.left, a) /\ Member(node.right, a)
    [] node.type = "diff" -> Member(node.left, a) /\ ~Member(node.right, a)
    [] node.type = "sym" -> Member(node.left, a) # Member(node.right, a)

RECURSIVE SetVarsOf(_)
SetVarsOf(node) ==
  CASE node.type = "var" -> {node.name}
    [] node.type = "const" -> {}
    [] node.type = "not" -> SetVarsOf(node.child)
    [] OTHER -> SetVarsOf(node.left) \cup SetVarsOf(node.right)

\* every assignment of the sets
Points == [SetNames -> BOOLEAN]

\* largest number of operators of each side of a compared pair of sets
MaxSetPairConn == 1
LeftSetLeaves == {SetVarNode("A"), SetVarNode("B"), SetConstNode(FALSE)}
RightSetLeaves == {SetVarNode("B"), SetVarNode("C"), SetConstNode(TRUE)}

InitSet ==
  /\ \E l \in SetExprsUpTo(LeftSetLeaves, MaxSetPairConn),
        r \in SetExprsUpTo(RightSetLeaves, MaxSetPairConn) :
       input = [left |-> l, right |-> r]
  /\ op = "none"
  /\ out = "none"

CallAreSetExprEquivalent ==
  /\ op = "none"
  /\ op' = "areSetExprEquivalent"
  /\ out' = areSetExprEquivalent(input.left, input.right)
  /\ UNCHANGED input

CallIsSubset ==
  /\ op = "none"
  /\ op' = "isSubset"
  /\ out' = isSubset(input.left, input.right)
  /\ UNCHANGED input

CallIsDisjoint ==
  /\ op = "none"
  /\ op' = "isDisjoint"
  /\ out' = isDisjoint(input.left, input.right)
  /\ UNCHANGED input

\* the table the three oracles enumerate
CallTruthTableSet ==
  /\ op = "none"
  /\ op' = "truthTableSet"
  /\ out' = truthTableSet(input.left, setPairVars(input.left, input.right))
  /\ UNCHANGED input

NextSet ==
  \/ CallAreSetExprEquivalent
  \/ CallIsSubset
  \/ CallIsDisjoint
  \/ CallTruthTableSet

SpecSet == InitSet /\ [][NextSet]_vars

\* C5: areSetExprEquivalent(L,R) iff L and R agree under every assignment;
\* isSubset(L,R) iff every assignment that makes L true makes R true;
\* isDisjoint(L,R) iff no assignment makes both true.  The rows enumerated
\* are exactly the assignments of the union of the variables of both sides,
\* each once, with the unmentioned sets false.
C5_SetOracles ==
  /\ op = "areSetExprEquivalent" =>
       out = \A a \in Points : Member(input.left, a) = Member(input.right, a)
  /\ op = "isSubset" =>
       out = \A a \in Points : Member(input.left, a) => Member(input.right, a)
  /\ op = "isDisjoint" =>
       out = \A a \in Points : ~(Member(input.left, a) /\ Member(input.right, a))
  /\ op = "truthTableSet" =>
       LET mentioned == SetVarsOf(input.left) \cup SetVarsOf(input.right)
       IN /\ {out[r].assignment : r \in DOMAIN out}
               = {a \in Points : \A n \in SetNames \ mentioned : ~a[n]}
          /\ Len(out) = Pow2(Cardinality(mentioned))
          /\ \A r \in DOMAIN out : out[r].value = Member(input.left, out[r].assignment)

\* the subset oracle has accepted a pair that is not equivalent and whose
\* right side mentions a set the left side does not
C5_Witness ==
  /\ op = "isSubset"
  /\ out = TRUE
  /\ SetVarsOf(input.right) \ SetVarsOf(input.left) # {}
  /\ \E a \in Points : Member(input.left, a) # Member(input.right, a)

(***************************************************************************)
(* Region masks (set-logic.ts).                                            *)
(***************************************************************************)
\* largest number of operators of an expression turned into a mask
MaxMaskConn == 1
MaskLeaves == {SetVarNode(n) : n \in SetNames} \cup {SetConstNode(FALSE), SetConstNode(TRUE)}

\* the ordered lists of two or three different set names
SetLists ==
  {s \in UNION {[1..k -> SetNames] : k \in {2, 3}} :
     \A i, j \in DOMAIN s : s[i] = s[j] => i = j}

InitMask ==
  /\ \E e \in SetExprsUpTo(MaskLeaves, MaxMaskConn), s \in SetLists :
       input = [node |-> e, sets |-> s]
  /\ op = "none"
  /\ out = "none"

CallComputeRegionMaskFromExpr ==
  /\ op = "none"
  /\ op' = "computeRegionMaskFromExpr"
  /\ out' = computeRegionMaskFromExpr(input.node, input.sets)
  /\ UNCHANGED input

NextMask == CallComputeRegionMaskFromExpr

SpecMask == InitMask /\ [][NextMask]_vars

\* the assignment with index idx for the list: sets[i] (0-based) is true
\* exactly when bit (k-1-i) of idx is 1, every set not listed is false
RegionPoint(sets, idx) ==
  [n \in SetNames |-> \E i \in 1..Len(sets) : sets[i] = n /\ BitSet(idx, Len(sets) - i)]

\* C6: for a list of k = 2 or 3 set names computeRegionMaskFromExpr(e, sets)
\* is an integer in 0..2^(2^k)-1 whose bit idx is set iff e is true under
\* assignment idx (first name = most significant bit, unlisted sets false);
\* with [A,B] the mask of A is 12 and the mask of B is 10.
C6_RegionMask ==
  op = "computeRegionMaskFromExpr" =>
    LET k == Len(input.sets)
    IN /\ out \in 0..(Pow2(Pow2(k)) - 1)
       /\ \A idx \in 0..(Pow2(k) - 1) :
            BitSet(out, idx) <=> Member(input.node, RegionPoint(input.sets, idx))
       /\ (input.sets = <<"A", "B">> /\ input.node = SetVarNode("A") => out = 12)
       /\ (input.sets = <<"A", "B">> /\ input.node = SetVarNode("B") => out = 10)

\* a mask has been computed for three sets listed out of alphabetical order
\* and an expression that is true in some regions and false in others
C6_Witness ==
  /\ op = "computeRegionMaskFromExpr"
  /\ input.sets = <<"C", "A", "B">>
  /\ input.node.type = "diff"
  /\ out \notin {0, 255}

(***************************************************************************)
(* Input normalization (logic.ts, normalizeWithCursor).                    *)
(***************************************************************************)
SymNot == "U+00AC"
SymAnd == "U+2227"
SymOr == "U+2228"
SymImp == "U+21D2"
SymIff == "U+21D4"
SymForall == "U+2200"
SymExists == "U+2203"
SymIn == "U+2208"
SymCup == "U+222A"
SymCap == "U+2229"
SymDelta == "U+0394"
SymEmpty == "U+2205"
SymOmega == "U+03A9"
SymInfty == "U+221E"
SymSqrt == "U+221A"
SymDeg == "U+00B0"
SymPi == "U+03C0"
SymSetMinus == "U+2216"

LowerAZ == <<"a", "b", "c", "d", "e", "f", "g", "h", "i", "j", "k", "l", "m",
             "n", "o", "p", "q", "r", "s", "t", "u", "v", "w", "x", "y", "z">>
Digits == {"0", "1", "2", "3", "4", "5", "6", "7", "8", "9"}
\* /[a-zA-Z]/
Letters == {UpperAZ[k] : k \in DOMAIN UpperAZ} \cup {LowerAZ[k] : k \in DOMAIN LowerAZ}
\* /\s/ (the ASCII white space and the Unicode space separators)
Whitespace == {" ", "\t", "\n", "\r", "\f", "U+000B", "U+00A0", "U+2028", "U+2029", "U+FEFF"}

\* the value of s[i] for an index outside the string
Undefined == "undefined"

\* s[i], 0-based
CharAt(s, i) == IF i >= 0 /\ i < Len(s) THEN s[i + 1] ELSE Undefined

\* s.slice(a, b) for 0 <= a <= b
Slice(s, a, b) == SubSeq(s, Min(a, Len(s)) + 1, Min(b, Len(s)))

\* String.prototype.toLowerCase on one code unit
LowerChar(c) ==
  IF \E k \in DOMAIN UpperAZ : UpperAZ[k] = c
  THEN LowerAZ[CHOOSE k \in DOMAIN UpperAZ : UpperAZ[k] = c]
  ELSE IF c = SymOmega THEN "U+03C9"
  ELSE IF c = SymDelta THEN "U+03B4"
  ELSE c

toLowerCase(s) == [k \in 1..Len(s) |-> LowerChar(s[k])]

\* a replacement that shifts the cursor when it starts before the moved cursor
applyReplacementMovedCursor(st, cursor, replacement, consumed) ==
  [normalized |-> st.normalized \o replacement,
   newCursor |-> IF st.i < st.newCursor
                 THEN st.newCursor + Len(replacement) - consumed
                 ELSE st.newCursor,
   i |-> st.i + consumed,
   subs |-> Append(st.subs, [start |-> st.i, consumed |-> consumed,
                             replaced |-> Len(replacement)])]

\* applyReplacement(replacement, consumed) on the loop state st = (normalized,
\* newCursor, i); subs records the calls made so far
applyReplacement(st, cursor, replacement, consumed) ==
  [normalized |-> st.normalized \o replacement,
   newCursor |-> IF st.i < cursor
                 THEN st.newCursor + Len(replacement) - consumed
                 ELSE st.newCursor,
   i |-> st.i + consumed,
   subs |-> Append(st.subs, [start |-> st.i, consumed |-> consumed,
                             replaced |-> Len(replacement)])]

\* normalized += char; i += 1
copyChar(st, char) ==
  [st EXCEPT !.normalized = Append(@, char), !.i = @ + 1]

\* while (prevIdx >= 0 && /\s/.test(raw[prevIdx])) prevIdx -= 1
RECURSIVE skipBack(_, _)
skipBack(raw, prevIdx) ==
  IF prevIdx >= 0 /\ CharAt(raw, prevIdx) \in Whitespace
  THEN skipBack(raw, prevIdx - 1) ELSE prevIdx

\* while (nextIdx < raw.length && /\s/.test(raw[nextIdx])) nextIdx += 1
RECURSIVE skipForward(_, _)
skipForward(raw, nextIdx) ==
  IF nextIdx < Len(raw) /\ CharAt(raw, nextIdx) \in Whitespace
  THEN skipForward(raw, nextIdx + 1) ELSE nextIdx

\* case '-' of the switch
minusCase(raw, cursor, st) ==
  LET i == st.i
      char == CharAt(raw, i)
  IN IF CharAt(raw, i + 1) = ">" THEN copyChar(st, char)
     ELSE LET prevIdx == skipBack(raw, i - 1)
              nextIdx == skipForward(raw, i + 1)
              prevChar == IF prevIdx >= 0 THEN CharAt(raw, prevIdx) ELSE ""
              nextChar == IF nextIdx < Len(raw) THEN CharAt(raw, nextIdx) ELSE ""
              prevSetLike == prevChar \in {"A", "B", "C", ")", "]"}
              nextSetLike == nextChar \in {"A", "B", "C", SymOmega, SymEmpty, "U", "("}
          IN IF prevSetLike /\ nextSetLike
             THEN applyReplacement(st, cursor, <<SymSetMinus>>, 1)
             ELSE copyChar(st, char)

\* default case of the switch
defaultCase(raw, cursor, st) ==
  LET i == st.i
      char == CharAt(raw, i)
      next == CharAt(raw, i + 1)
      prev == CharAt(raw, i - 1)
  IN IF /\ char = "U"
        /\ prev # Undefined /\ prev \in Letters \cup Digits \cup {")"}
        /\ next # Undefined /\ next \in Letters \cup Digits \cup {"("}
     THEN applyReplacement(st, cursor, <<SymCup>>, 1)
     ELSE IF char = "U" /\ (next = Undefined \/ next \in Whitespace \cup {")", "("})
     THEN applyReplacement(st, cursor, <<SymOmega>>, 1)
     ELSE copyChar(st, char)

\* one pass through the body of the while loop
loopBody(raw, lower, cursor, st) ==
  LET i == st.i
      slice3 == Slice(raw, i, i + 3)
      slice2 == Slice(raw, i, i + 2)
      ahead6 == Slice(lower, i, i + 6)
      ahead5 == Slice(lower, i, i + 5)
      ahead4 == Slice(lower, i, i + 4)
      ahead3 == Slice(lower, i, i + 3)
      ahead2 == Slice(lower, i, i + 2)
      ahead8 == Slice(lower, i, i + 8)
      before == CharAt(raw, i - 1)
      after == CharAt(raw, i + 2)
      boundaryBefore == before = Undefined \/ before \notin Letters
      boundaryAfter == after = Undefined \/ after \notin Letters
      char == CharAt(raw, i)
  IN IF ahead6 = <<"f", "o", "r", "a", "l", "l">>
       THEN applyReplacement(st, cursor, <<SymForall>>, 6)
     ELSE IF ahead6 = <<"e", "x", "i", "s", "t", "s">>
       THEN applyReplacement(st, cursor, <<SymExists>>, 6)
     ELSE IF ahead3 = <<"p", "i">>
       THEN applyReplacement(st, cursor, <<SymPi>>, 2)
     ELSE IF ahead4 = <<"s", "q", "r", "t">>
       THEN applyReplacement(st, cursor, <<SymSqrt>>, 4)
     ELSE IF ahead3 = <<"d", "e", "g">>
       THEN applyReplacement(st, cursor, <<SymDeg>>, 3)
     ELSE IF ahead2 = <<"i", "n">> /\ boundaryBefore /\ boundaryAfter
       THEN applyReplacement(st, cursor, <<SymIn>>, 2)
     ELSE IF slice3 = <<"<", "-", ">">>
       THEN applyReplacement(st, cursor, <<SymIff>>, 3)
     ELSE IF slice2 = <<"-", ">">>
       THEN applyReplacement(st, cursor, <<SymImp>>, 2)
     ELSE IF \/ ahead4 = <<"c", "u", "p", " ">>
             \/ ahead4 = <<"c", "u", "p">>
             \/ ahead4 = <<"c", "a", "p", " ">>
       THEN applyReplacement(st, cursor,
                             IF SubSeq(ahead4, 1, 3) = <<"c", "a", "p">>
                             THEN <<SymCap>> ELSE <<SymCup>>,
                             3)
     ELSE IF ahead6 = <<"u", "n", "i", "o", "n">>
       THEN applyReplacement(st, cursor, <<SymCup>>, 5)
     ELSE IF ahead5 = <<"d", "e", "l", "t", "a">>
       THEN applyReplacement(st, cursor, <<SymDelta>>, 5)
     ELSE IF ahead5 = <<"e", "m", "p", "t", "y">>
       THEN applyReplacement(st, cursor, <<SymEmpty>>, 5)
     ELSE IF ahead5 = <<"o", "m", "e", "g", "a">>
       THEN applyReplacement(st, cursor, <<SymOmega>>, 5)
     ELSE IF ahead3 = <<"i", "n", "f">>
       THEN applyReplacement(st, cursor, <<SymInfty>>, 3)
     ELSE IF ahead5 = <<"i", "n", "f", "t", "y">>
       THEN applyReplacement(st, cursor, <<SymInfty>>, 5)
     ELSE IF ahead8 = <<"i", "n", "t", "e", "r", "s", "e", "c", "t">>
       THEN applyReplacement(st, cursor, <<SymCap>>, 8)
     ELSE IF char = "!" THEN applyReplacement(st, cursor, <<SymNot>>, 1)
     ELSE IF char = "&" THEN applyReplacement(st, cursor, <<SymAnd>>, 1)
     ELSE IF char = "|" THEN applyReplacement(st, cursor, <<SymOr>>, 1)
     ELSE IF char = "\\" THEN applyReplacement(st, cursor, <<SymSetMinus>>, 1)
     ELSE IF char = "-" THEN minusCase(raw, cursor, st)
     ELSE IF char = "'" THEN applyReplacement(st, cursor, <<"^", "c">>, 1)
     ELSE defaultCase(raw, cursor, st)

\* while (i < raw.length) { ... }
RECURSIVE whileLoop(_, _, _, _)
whileLoop(raw, lower, cursor, st) ==
  IF st.i < Len(raw) THEN whileLoop(raw, lower, cursor, loopBody(raw, lower, cursor, st))
  ELSE st

\* the result {value, cursor}; subs lists the applyReplacement calls of the run
normalizeWithCursor(raw, cursor) ==
  LET final == whileLoop(raw, toLowerCase(raw), cursor,
                         [normalized |-> << >>, newCursor |-> cursor, i |-> 0,
                          subs |-> << >>])
      clampedCursor == Max(0, Min(Len(final.normalized), final.newCursor))
  IN [value |-> final.normalized, cursor |-> clampedCursor, subs |-> final.subs]

normalizeSymbols(raw) == normalizeWithCursor(raw, Len(raw)).value

(***************************************************************************)
(* The texts a normalizer call can receive: a shortcut (or two short ones) *)
(* between two contexts of at most MaxCtx code units, with the cursor at   *)
(* any position of the text.                                               *)
(***************************************************************************)
\* largest length of the text before and of the text after the shortcuts
MaxCtx == 1
CtxAlphabet == {"A", " ", "x", "(", ")"}

\* the ASCII shortcuts of the editor and the symbol each one stands for
ShortcutTable ==
  << [ascii |-> <<"!">>, symbol |-> <<SymNot>>],
     [ascii |-> <<"&">>, symbol |-> <<SymAnd>>],
     [ascii |-> <<"|">>, symbol |-> <<SymOr>>],
     [ascii |-> <<"-", ">">>, symbol |-> <<SymImp>>],
     [ascii |-> <<"<", "-", ">">>, symbol |-> <<SymIff>>],
     [ascii |-> <<"f", "o", "r", "a", "l", "l">>, symbol |-> <<SymForall>>],
     [ascii |-> <<"e", "x", "i", "s", "t", "s">>, symbol |-> <<SymExists>>],
     [ascii |-> <<"i", "n">>, symbol |-> <<SymIn>>],
     [ascii |-> <<"c", "u", "p">>, symbol |-> <<SymCup>>],
     [ascii |-> <<"u", "n", "i", "o", "n">>, symbol |-> <<SymCup>>],
     [ascii |-> <<"c", "a", "p">>, symbol |-> <<SymCap>>],
     [ascii |-> <<"i", "n", "t", "e", "r", "s", "e", "c", "t">>, symbol |-> <<SymCap>>],
     [ascii |-> <<"d", "e", "l", "t", "a">>, symbol |-> <<SymDelta>>],
     [ascii |-> <<"e", "m", "p", "t", "y">>, symbol |-> <<SymEmpty>>],
     [ascii |-> <<"o", "m", "e", "g", "a">>, symbol |-> <<SymOmega>>],
     [ascii |-> <<"i", "n", "f">>, symbol |-> <<SymInfty>>],
     [ascii |-> <<"i", "n", "f", "t", "y">>, symbol |-> <<SymInfty>>],
     [ascii |-> <<"s", "q", "r", "t">>, symbol |-> <<SymSqrt>>],
     [ascii |-> <<"d", "e", "g">>, symbol |-> <<SymDeg>>],
     [ascii |-> <<"'">>, symbol |-> <<"^", "c">>] >>

Shortcuts == {ShortcutTable[k].ascii : k \in DOMAIN ShortcutTable}

\* further texts the normalizer treats specially, and plain ones
OtherFragments ==
  {<<"p", "i">>, <<"U">>, <<"-">>, <<"\\">>, <<"I", "N">>, <<"B">>, << >>}

\* the short fragments that are also drawn two in a row
CoreFragments == {<<"!">>, <<"-", ">">>, <<"i", "n">>, <<"'">>, <<"U">>}

MidTexts ==
  Shortcuts \cup OtherFragments \cup {a \o b : a, b \in CoreFragments}

CtxTexts == UNION {[1..n -> CtxAlphabet] : n \in 0..MaxCtx}

\* normalizeWithCursor('A -> B', 4) of logic.test.ts
TestText == <<"A", " ", "-", ">", " ", "B">>

RawTexts == {pre \o mid \o post : pre \in CtxTexts, mid \in MidTexts, post \in CtxTexts}
              \cup {TestText}

InitNorm ==
  /\ \E raw \in RawTexts : \E cursor \in 0..Len(raw) :
       input = [raw |-> raw, cursor |-> cursor]
  /\ op = "none"
  /\ out = "none"

CallNormalizeWithCursor ==
  /\ op = "none"
  /\ op' = "normalizeWithCursor"
  /\ out' = normalizeWithCursor(input.raw, input.cursor)
  /\ UNCHANGED input

NextNorm == CallNormalizeWithCursor

SpecNorm == InitNorm /\ [][NextNorm]_vars

\* the sum of (r - c) over the first n substitutions that start before pos
RECURSIVE ShiftBefore(_, _, _)
ShiftBefore(subs, pos, n) ==
  IF n = 0 THEN 0
  ELSE ShiftBefore(subs, pos, n - 1)
       + (IF subs[n].start < pos THEN subs[n].replaced - subs[n].consumed ELSE 0)

\* C9: the returned cursor is clamp(cursor + sum of (r - c) over the
\* substitutions that start strictly before the original cursor, 0, length
\* of the normalized value); ('A -> B', 4) gives 'A => B' and cursor 3.
C9_CursorShift ==
  op = "normalizeWithCursor" =>
    LET shift == ShiftBefore(out.subs, input.cursor, Len(out.subs))
    IN /\ out.cursor = Max(0, Min(Len(out.value), input.cursor + shift))
       /\ Len(out.value)
            = Len(input.raw) + ShiftBefore(out.subs, Len(input.raw), Len(out.subs))
       /\ (input.raw = TestText /\ input.cursor = 4 =>
             /\ out.value = <<"A", " ", SymImp, " ", "B">>
             /\ out.cursor = 3)

\* a call whose cursor lies behind a shrinking and a growing substitution
\* and before a third one
C9_Witness ==
  /\ op = "normalizeWithCursor"
  /\ Len(out.subs) >= 2
  /\ \E a, b \in DOMAIN out.subs :
       /\ out.subs[a].start < input.cursor
       /\ out.subs[a].replaced < out.subs[a].consumed
       /\ out.subs[b].start >= input.cursor

\* the texts between which a shortcut stands on its own
NeutralTexts == UNION {[1..n -> {" ", "(", ")"}] : n \in 0..MaxCtx}

\* C10: every listed ASCII shortcut is replaced by its symbol wherever it
\* occurs (at the start, in the middle, at the end), the whole keyword being
\* consumed: 'infty' yields exactly the infinity sign.
C10_ShortcutsReplaced ==
  op = "normalizeWithCursor" =>
    \A k \in DOMAIN ShortcutTable : \A pre, post \in NeutralTexts :
      input.raw = pre \o ShortcutTable[k].ascii \o post
        => out.value = pre \o ShortcutTable[k].symbol \o post

(***************************************************************************)
(* FormulaParser (logic.ts).  A parse function takes the input and the     *)
(* value of this.index and returns the node with the new index, or the     *)
(* message of the Error it throws.                                         *)
(***************************************************************************)
Parsed(node, index) == [ok |-> TRUE, node |-> node, index |-> index]
Thrown(message) == [ok |-> FALSE, error |-> message]

RECURSIVE skipWhitespace(_, _)
skipWhitespace(inp, index) ==
  IF index < Len(inp) /\ CharAt(inp, index) \in Whitespace
  THEN skipWhitespace(inp, index + 1) ELSE index

\* match(symbol) for a symbol of one code unit: whether it matched, and the
\* index afterwards
match(inp, index, symbol) ==
  LET at == skipWhitespace(inp, index)
  IN IF CharAt(inp, at) = symbol
     THEN [matched |-> TRUE, index |-> skipWhitespace(inp, at + 1)]
     ELSE [matched |-> FALSE, index |-> at]

\* parseIff, parseImp, parseOr and parseAnd are one method text with three
\* parameters: the operator symbol matched, the node kind built and the
\* method that parses the operands
BinaryLevel ==
  [parseIff |-> [symbol |-> SymIff, kind |-> "iff", operand |-> "parseImp"],
   parseImp |-> [symbol |-> SymImp, kind |-> "imp", operand |-> "parseOr"],
   parseOr |-> [symbol |-> SymOr, kind |-> "or", operand |-> "parseAnd"],
   parseAnd |-> [symbol |-> SymAnd, kind |-> "and", operand |-> "parseNot"]]

RECURSIVE parseMethod(_, _, _), parseLoop(_, _, _, _)

\* a loop that parses the right operand as a whole chain of the same level
parseLoopRightNested(method, inp, left, index) ==
  LET level == BinaryLevel[method]
      m == match(inp, index, level.symbol)
  IN IF m.matched
     THEN LET right == parseMethod(method, inp, m.index)
          IN IF ~right.ok THEN right
             ELSE Parsed(BinaryNode(level.kind, left, right.node), right.index)
     ELSE Parsed(left, m.index)

\* while (this.match(symbol)) { right = operand(); left = {type, left, right} }
parseLoop(method, inp, left, index) ==
  LET level == BinaryLevel[method]
      m == match(inp, index, level.symbol)
  IN IF m.matched
     THEN LET right == parseMethod(level.operand, inp, m.index)
          IN IF ~right.ok THEN right
             ELSE parseLoop(method, inp, BinaryNode(level.kind, left, right.node),
                            right.index)
     ELSE Parsed(left, m.index)

\* the body of the named method of FormulaParser, called with this.index
parseMethod(method, inp, index) ==
  IF method = "parsePrimary" THEN
    LET at == skipWhitespace(inp, index)
        char == CharAt(inp, at)
    IN IF char = Undefined THEN Thrown("Formel ist unvollstaendig")
       ELSE IF char = "(" THEN
         LET expr == parseMethod("parseIff", inp, at + 1)
         IN IF ~expr.ok THEN expr
            ELSE LET m == match(inp, expr.index, ")")
                 IN IF ~m.matched THEN Thrown("Schliessende Klammer fehlt")
                    ELSE Parsed(expr.node, m.index)
       ELSE IF \E k \in DOMAIN UpperAZ : UpperAZ[k] = char
         THEN Parsed(VarNode(char), at + 1)
       ELSE Thrown("Unerwartetes Symbol")
  ELSE IF method = "parseNot" THEN
    LET m == match(inp, index, SymNot)
    IN IF m.matched
       THEN LET child == parseMethod("parseNot", inp, m.index)
            IN IF ~child.ok THEN child ELSE Parsed(UnaryNode(child.node), child.index)
       ELSE parseMethod("parsePrimary", inp, m.index)
  ELSE
    LET left == parseMethod(BinaryLevel[method].operand, inp, index)
    IN IF ~left.ok THEN left ELSE parseLoop(method, inp, left.node, left.index)

parsePrimary(inp, index) == parseMethod("parsePrimary", inp, index)
parseNot(inp, index) == parseMethod("parseNot", inp, index)
parseAnd(inp, index) == parseMethod("parseAnd", inp, index)
parseOr(inp, index) == parseMethod("parseOr", inp, index)
parseImp(inp, index) == parseMethod("parseImp", inp, index)
parseIff(inp, index) == parseMethod("parseIff", inp, index)

\* a parse() that returns the node without looking at the rest of the input
parseNoRestCheck(inp) ==
  LET node == parseIff(inp, 0)
  IN IF ~node.ok THEN node ELSE [ok |-> TRUE, node |-> node.node]

\* FormulaParser.parse()
parse(inp) ==
  LET node == parseIff(inp, 0)
  IN IF ~node.ok THEN node
     ELSE IF skipWhitespace(inp, node.index) < Len(inp)
          THEN Thrown("Unerwartete Eingabe nach Formel")
          ELSE [ok |-> TRUE, node |-> node.node]

\* String.prototype.trim
RECURSIVE trim(_)
trim(s) ==
  IF s = << >> THEN s
  ELSE IF Head(s) \in Whitespace THEN trim(Tail(s))
  ELSE IF s[Len(s)] \in Whitespace THEN trim(SubSeq(s, 1, Len(s) - 1))
  ELSE s

parseFormula(text) == parse(normalizeSymbols(trim(text)))

(***************************************************************************)
(* The texts parseFormula can receive: operator and operand symbols in any *)
(* order, texts with parentheses, blanks, ASCII shortcuts and symbols that *)
(* are not part of the grammar, and the formulas of logic.test.ts.         *)
(***************************************************************************)
\* largest number of symbols of a text without parentheses
MaxTokens == 5
TokenAlphabet == {"A", "B", SymNot, SymAnd, SymOr, SymImp, SymIff}
\* largest length of a text over the wide alphabet
MaxWide == 4
WideAlphabet == {"A", "(", ")", " ", "x", SymNot, SymAnd, SymImp, "&", "-", ">", "U"}

\* 'A => B => C' and 'A and B or C => D <=> E'
ChainText == <<"A", " ", SymImp, " ", "B", " ", SymImp, " ", "C">>
PrecedenceText ==
  <<"A", " ", SymAnd, " ", "B", " ", SymOr, " ", "C", " ", SymImp, " ", "D", " ",
    SymIff, " ", "E">>

InitParse ==
  /\ \/ \E n \in 0..MaxTokens : \E t \in [1..n -> TokenAlphabet] : input = [text |-> t]
     \/ \E n \in 0..MaxWide : \E t \in [1..n -> WideAlphabet] : input = [text |-> t]
     \/ input \in {[text |-> ChainText], [text |-> PrecedenceText]}
  /\ op = "none"
  /\ out = "none"

CallParseFormula ==
  /\ op = "none"
  /\ op' = "parseFormula"
  /\ out' = parseFormula(input.text)
  /\ UNCHANGED input

NextParse == CallParseFormula

SpecParse == InitParse /\ [][NextParse]_vars

\* binding strength: not > and > or > imp > iff
Strength(node) ==
  CASE node.type = "iff" -> 1
    [] node.type = "imp" -> 2
    [] node.type = "or" -> 3
    [] node.type = "and" -> 4
    [] node.type = "not" -> 5
    [] node.type = "var" -> 6

\* the tree of a text without parentheses: the left operand binds at least
\* as strongly as its operator (chains nest to the left), the right operand
\* binds more strongly, and a not holds a not or a variable
RECURSIVE LeftNested(_)
LeftNested(node) ==
  CASE node.type = "var" -> TRUE
    [] node.type = "not" -> Strength(node.child) >= 5 /\ LeftNested(node.child)
    [] OTHER -> /\ Strength(node.left) >= Strength(node)
                /\ Strength(node.right) > Strength(node)
                /\ LeftNested(node.left)
                /\ LeftNested(node.right)

OperatorSymbol(kind) ==
  CASE kind = "and" -> SymAnd
    [] kind = "or" -> SymOr
    [] kind = "imp" -> SymImp
    [] kind = "iff" -> SymIff

\* the symbols of a tree from left to right
RECURSIVE Yield(_)
Yield(node) ==
  CASE node.type = "var" -> <<node.name>>
    [] node.type = "not" -> <<SymNot>> \o Yield(node.child)
    [] OTHER -> Yield(node.left) \o <<OperatorSymbol(node.type)>> \o Yield(node.right)

GrammarSymbols == {SymNot, SymAnd, SymOr, SymImp, SymIff}
UpperLetters == {UpperAZ[k] : k \in DOMAIN UpperAZ}

\* the text is written with the symbols of the grammar only
PlainText(text) ==
  \A p \in DOMAIN text :
    text[p] \in GrammarSymbols \cup UpperLetters \cup Whitespace \cup {"(", ")"}

WithoutBlanksAndParens(text) ==
  SelectSeq(text, LAMBDA c : c \notin Whitespace \cup {"(", ")"})

\* C7: binding strength not > and > or > imp > iff, a chain of one operator
\* nests to the left, a not applies to the smallest following not/primary:
\* the tree of a text lists the symbols of the text in their order, and for
\* a text without parentheses it is the left-nested tree.
C7_Precedence ==
  op = "parseFormula" =>
    /\ (out.ok /\ PlainText(input.text) =>
          /\ Yield(out.node) = WithoutBlanksAndParens(input.text)
          /\ (\A p \in DOMAIN input.text : input.text[p] \notin {"(", ")"})
               => LeftNested(out.node))
    /\ (input.text = ChainText =>
          /\ out.ok
          /\ out.node = BinaryNode("imp", BinaryNode("imp", VarNode("A"), VarNode("B")),
                                   VarNode("C")))
    /\ (input.text = PrecedenceText =>
          /\ out.ok
          /\ out.node =
               BinaryNode("iff",
                 BinaryNode("imp",
                   BinaryNode("or", BinaryNode("and", VarNode("A"), VarNode("B")),
                              VarNode("C")),
                   VarNode("D")),
                 VarNode("E")))

\* a chain of two implications behind a negated operand has been parsed
C7_Witness ==
  /\ op = "parseFormula"
  /\ out.ok
  /\ Len(input.text) = MaxTokens
  /\ out.node.type = "imp"
  /\ out.node.left.type = "imp"

\* the text with every ASCII shortcut of an operator written as the operator
\* and the white space removed
RECURSIVE Canonical(_)
Canonical(text) ==
  IF text = << >> THEN << >>
  ELSE IF Len(text) >= 3 /\ SubSeq(text, 1, 3) = <<"<", "-", ">">>
    THEN <<SymIff>> \o Canonical(SubSeq(text, 4, Len(text)))
  ELSE IF Len(text) >= 2 /\ SubSeq(text, 1, 2) = <<"-", ">">>
    THEN <<SymImp>> \o Canonical(SubSeq(text, 3, Len(text)))
  ELSE IF Head(text) = "!" THEN <<SymNot>> \o Canonical(Tail(text))
  ELSE IF Head(text) = "&" THEN <<SymAnd>> \o Canonical(Tail(text))
  ELSE IF Head(text) = "|" THEN <<SymOr>> \o Canonical(Tail(text))
  ELSE IF Head(text) \in Whitespace THEN Canonical(Tail(text))
  ELSE <<Head(text)>> \o Canonical(Tail(text))

\* the sentences of the grammar, recognized symbol by symbol: an operand is a
\* letter or a parenthesized sentence, possibly behind negation signs; after
\* an operand comes a binary operator or a closing parenthesis.  The state is
\* "operand" (an operand is required), "operator" or "reject", with the
\* number of open parentheses.
RECURSIVE Recognize(_, _, _)
Recognize(symbols, state, open) ==
  IF state = "reject" THEN FALSE
  ELSE IF symbols = << >> THEN state = "operator" /\ open = 0
  ELSE LET c == Head(symbols)
           rest == Tail(symbols)
       IN IF state = "operand"
          THEN IF c = SymNot THEN Recognize(rest, "operand", open)
               ELSE IF c = "(" THEN Recognize(rest, "operand", open + 1)
               ELSE IF c \in UpperLetters THEN Recognize(rest, "operator", open)
               ELSE FALSE
          ELSE IF c \in {SymAnd, SymOr, SymImp, SymIff}
               THEN Recognize(rest, "operand", open)
               ELSE IF c = ")" /\ open > 0 THEN Recognize(rest, "operator", open - 1)
               ELSE FALSE

Sentence(text) == Recognize(Canonical(text), "operand", 0)

\* a code unit that is no operator (or part of its ASCII shortcut), no
\* parenthesis, no white space and no upper-case letter
UnknownSymbolAt(text, p) ==
  LET c == text[p]
  IN /\ c \notin GrammarSymbols \cup UpperLetters \cup Whitespace \cup {"(", ")", "!", "&", "|"}
     /\ ~(c = "-" /\ CharAt(text, p) = ">")
     /\ ~(c = ">" /\ CharAt(text, p - 2) = "-")
     /\ ~(c = "<" /\ CharAt(text, p) = "-" /\ CharAt(text, p + 1) = ">")

\* more opening than closing parentheses
UnclosedParenthesis(text) ==
  Len(SelectSeq(text, LAMBDA c : c = "(")) > Len(SelectSeq(text, LAMBDA c : c = ")"))

\* the text is empty or ends with an operator or an opening parenthesis
EndsWhereOperandRequired(text) ==
  LET symbols == Canonical(text)
  IN symbols = << >> \/ symbols[Len(symbols)] \in GrammarSymbols \cup {"("}

\* C8: parseFormula returns a tree only for a complete sentence of the
\* grammar; it throws for a text with an unknown symbol, an unclosed
\* parenthesis, leftover text after a formula, or an end where an operand is
\* required (the empty text included).
C8_ParseErrors ==
  op = "parseFormula" =>
    /\ (out.ok => Sentence(input.text))
    /\ ((\E p \in DOMAIN input.text : UnknownSymbolAt(input.text, p)) => ~out.ok)
    /\ (UnclosedParenthesis(input.text) => ~out.ok)
    /\ (EndsWhereOperandRequired(input.text) => ~out.ok)

\* a formula followed by leftover text has been rejected
C8_Witness ==
  /\ op = "parseFormula"
  /\ ~out.ok
  /\ out.error = "Unerwartete Eingabe nach Formel"
  /\ \E p \in DOMAIN input.text : input.text[p] = ")"

(***************************************************************************)
(* The Boolean-algebra identities of the set engine (set-logic.ts).        *)
(***************************************************************************)
\* largest number of operators of X and of Y
MaxIdentConn == 1
IdentLeavesX == {SetVarNode("A"), SetVarNode("B")}
IdentLeavesY == {SetVarNode("B"), SetConstNode(TRUE)}

IdentityLaws == {"deMorganInter", "deMorganUnion", "diff", "sym", "empty", "omega"}

\* the two sides of each identity, written for the expressions X and Y
IdentityLeft(law, X, Y) ==
  CASE law = "deMorganInter" -> SetUnaryNode(SetBinaryNode("inter", X, Y))
    [] law = "deMorganUnion" -> SetUnaryNode(SetBinaryNode("union", X, Y))
    [] law = "diff" -> SetBinaryNode("diff", X, Y)
    [] law = "sym" -> SetBinaryNode("sym", X, Y)
    [] law = "empty" -> SetBinaryNode("inter", X, SetUnaryNode(X))
    [] law = "omega" -> SetBinaryNode("union", X, SetUnaryNode(X))

IdentityRight(law, X, Y) ==
  CASE law = "deMorganInter" -> SetBinaryNode("union", SetUnaryNode(X), SetUnaryNode(Y))
    [] law = "deMorganUnion" -> SetBinaryNode("inter", SetUnaryNode(X), SetUnaryNode(Y))
    [] law = "diff" -> SetBinaryNode("inter", X, SetUnaryNode(Y))
    [] law = "sym" ->
         SetBinaryNode("union", SetBinaryNode("diff", X, Y), SetBinaryNode("diff", Y, X))
    [] law = "empty" -> SetConstNode(FALSE)
    [] law = "omega" -> SetConstNode(TRUE)

InitIdentity ==
  /\ \E X \in SetExprsUpTo(IdentLeavesX, MaxIdentConn),
        Y \in SetExprsUpTo(IdentLeavesY, MaxIdentConn),
        law \in IdentityLaws :
       input = [left |-> IdentityLeft(law, X, Y), right |-> IdentityRight(law, X, Y),
                law |-> law, X |-> X, Y |-> Y]
  /\ op = "none"
  /\ out = "none"

NextIdentity == CallAreSetExprEquivalent

SpecIdentity == InitIdentity /\ [][NextIdentity]_vars

\* C11: for all set expressions X and Y areSetExprEquivalent confirms
\* not(inter(X,Y)) = union(not X, not Y), not(union(X,Y)) = inter(not X, not Y),
\* diff(X,Y) = inter(X, not Y), sym(X,Y) = union(diff(X,Y), diff(Y,X)),
\* inter(X, not X) = empty and union(X, not X) = omega.
C11_SetIdentities ==
  op = "areSetExprEquivalent" =>
    /\ input.left = IdentityLeft(input.law, input.X, input.Y)
    /\ input.right = IdentityRight(input.law, input.X, input.Y)
    /\ out = TRUE

\* the symmetric-difference identity has been confirmed for two composite
\* expressions that share a set
C11_Witness ==
  /\ op = "areSetExprEquivalent"
  /\ out = TRUE
  /\ input.law = "sym"
  /\ input.X.type = "diff"
  /\ input.Y.type = "union"
  /\ SetVarsOf(input.X) \cap SetVarsOf(input.Y) # {}

(***************************************************************************)
(* Rational (set-logic.ts, trig-core.ts).  A number is a JavaScript double *)
(* holding an integer; the model keeps the integer.  A call returns        *)
(* Returned(value) or Thrown(message).                                     *)
(***************************************************************************)
Returned(value) == [ok |-> TRUE, value |-> value]

\* Math.abs
Abs(x) == IF x < 0 THEN -x ELSE x

\* a % b of JavaScript: the remainder takes the sign of the dividend
JsRem(a, b) == IF a >= 0 THEN a % Abs(b) ELSE -((-a) % Abs(b))

\* while (y !== 0) { t = y; y = x % y; x = t }
RECURSIVE gcdLoop(_, _)
gcdLoop(x, y) == IF y # 0 THEN gcdLoop(y, x % y) ELSE x

gcd(a, b) ==
  LET x == gcdLoop(Abs(a), Abs(b))
  IN IF x = 0 THEN 1 ELSE x

\* a normalization that leaves the sign on the denominator
normalizeRationalKeepSign(value) ==
  IF value.d = 0 THEN Thrown("Nenner darf nicht 0 sein.")
  ELSE LET g == gcd(value.n, value.d)
       IN Returned([n |-> value.n \div g, d |-> value.d \div g])

normalizeRational(value) ==
  IF value.d = 0 THEN Thrown("Nenner darf nicht 0 sein.")
  ELSE LET sign == IF value.d < 0 THEN -1 ELSE 1
           n == value.n * sign
           d == Abs(value.d)
           g == gcd(n, d)
       IN Returned([n |-> n \div g, d |-> d \div g])

rationalOpsAdd(a, b) == normalizeRational([n |-> a.n * b.d + b.n * a.d, d |-> a.d * b.d])
rationalOpsSub(a, b) == normalizeRational([n |-> a.n * b.d - b.n * a.d, d |-> a.d * b.d])
rationalOpsMul(a, b) == normalizeRational([n |-> a.n * b.n, d |-> a.d * b.d])
rationalOpsDiv(a, b) ==
  IF b.n = 0 THEN Thrown("Division durch 0")
  ELSE normalizeRational([n |-> a.n * b.d, d |-> a.d * b.n])

\* largest absolute value of a numerator or denominator handed to a call
MaxRat == 4
RatInputs == [n : -MaxRat..MaxRat, d : -MaxRat..MaxRat]

InitRational ==
  /\ \E a \in RatInputs, b \in RatInputs : input = [a |-> a, b |-> b]
  /\ op = "none"
  /\ out = "none"

CallNormalizeRational ==
  /\ op = "none"
  /\ op' = "normalizeRational"
  /\ out' = normalizeRational(input.a)
  /\ UNCHANGED input

CallRationalAdd ==
  /\ op = "none"
  /\ op' = "add"
  /\ out' = rationalOpsAdd(input.a, input.b)
  /\ UNCHANGED input

CallRationalSub ==
  /\ op = "none"
  /\ op' = "sub"
  /\ out' = rationalOpsSub(input.a, input.b)
  /\ UNCHANGED input

CallRationalMul ==
  /\ op = "none"
  /\ op' = "mul"
  /\ out' = rationalOpsMul(input.a, input.b)
  /\ UNCHANGED input

CallRationalDiv ==
  /\ op = "none"
  /\ op' = "div"
  /\ out' = rationalOpsDiv(input.a, input.b)
  /\ UNCHANGED input

NextRational ==
  \/ CallNormalizeRational
  \/ CallRationalAdd
  \/ CallRationalSub
  \/ CallRationalMul
  \/ CallRationalDiv

SpecRational == InitRational /\ [][NextRational]_vars

\* no integer above 1 divides both numbers
Coprime(a, b) == \A k \in 2..Max(Abs(a), Abs(b)) : ~(a % k = 0 /\ b % k = 0)

\* d > 0, lowest terms, zero as 0/1
InLowestTerms(r) ==
  /\ r.d > 0
  /\ Coprime(Abs(r.n), r.d)
  /\ (r.n = 0 => r.d = 1)

\* C15: for d # 0 normalizeRational({n,d}) returns {n',d'} with d' > 0,
\* gcd(|n'|,d') = 1, n'*d = n*d' and zero as 0/1; with d = 0 it throws;
\* every result of add, sub, mul and div is in the same form (and has the
\* value of the operation), and div throws when the divisor's numerator is 0.
C15_RationalInvariant ==
  /\ op = "normalizeRational" =>
       IF input.a.d = 0 THEN ~out.ok
       ELSE /\ out.ok
            /\ InLowestTerms(out.value)
            /\ out.value.n * input.a.d = input.a.n * out.value.d
  /\ op \in {"add", "sub", "mul", "div"} /\ out.ok => InLowestTerms(out.value)
  /\ op = "div" /\ input.b.n = 0 => ~out.ok
  /\ op \in {"add", "sub", "mul"} /\ input.a.d # 0 /\ input.b.d # 0 =>
       LET a == input.a
           b == input.b
           r == out.value
       IN /\ out.ok
          /\ op = "add" => r.n * a.d * b.d = (a.n * b.d + b.n * a.d) * r.d
          /\ op = "sub" => r.n * a.d * b.d = (a.n * b.d - b.n * a.d) * r.d
          /\ op = "mul" => r.n * a.d * b.d = a.n * b.n * r.d
  /\ op = "div" /\ input.a.d # 0 /\ input.b.d # 0 /\ input.b.n # 0 =>
       /\ out.ok
       /\ out.value.n * input.a.d * input.b.n = input.a.n * input.b.d * out.value.d

\* a quotient by a negative fraction that is not in lowest terms has been
\* returned in lowest terms with the sign on the numerator
C15_Witness ==
  /\ op = "div"
  /\ out.ok
  /\ input.b.n < 0 /\ input.b.d = 4 /\ input.a = [n |-> 2, d |-> -4]
  /\ out.value.n > 0 /\ out.value.d > 1

(***************************************************************************)
(* Angles and exact values (trig-core.ts).                                 *)
(*   Angle      = {kind:'deg', value} | {kind:'rad', p, q}   (p/q * pi)    *)
(*   ExactValue = zero | one(sign) | half(sign) | sqrt(n, sign, overTwo)   *)
(*                | rational(r) | undef                                    *)
(* A double that is not an integer is kept in units of 1e-9, the tolerance *)
(* of every comparison the code makes on such a value.                     *)
(***************************************************************************)
DegAngle(value) == [kind |-> "deg", value |-> value]
RadAngle(p, q) == [kind |-> "rad", p |-> p, q |-> q]

Zero == [kind |-> "zero"]
One(sign) == [kind |-> "one", sign |-> sign]
Half(sign) == [kind |-> "half", sign |-> sign]
Sqrt(n, sign, overTwo) == [kind |-> "sqrt", n |-> n, sign |-> sign, overTwo |-> overTwo]
RationalValue(r) == [kind |-> "rational", r |-> r]
Undef == [kind |-> "undef"]

normRational(r) ==
  IF r.d = 0 THEN Thrown("Denominator 0")
  ELSE LET sign == IF r.d < 0 THEN -1 ELSE 1
           n == r.n * sign
           d == Abs(r.d)
           g == gcd(n, d)
       IN Returned([n |-> n \div g, d |-> d \div g])

\* a normalization that keeps the negative remainder of %
normalizeAngleNoWrap(ang) ==
  IF ang.kind = "deg" THEN Returned(DegAngle(JsRem(ang.value, 360)))
  ELSE LET twoPi == 2
           frac == normRational([n |-> ang.p, d |-> ang.q])
       IN IF ~frac.ok THEN frac
          ELSE Returned(RadAngle(JsRem(frac.value.n, frac.value.d * twoPi), frac.value.d))

normalizeAngle(ang) ==
  IF ang.kind = "deg"
  THEN LET val == JsRem(ang.value, 360)
       IN Returned(DegAngle(IF val < 0 THEN val + 360 ELSE val))
  ELSE LET twoPi == 2
           frac == normRational([n |-> ang.p, d |-> ang.q])
       IN IF ~frac.ok THEN frac
          ELSE LET n == JsRem(frac.value.n, frac.value.d * twoPi)
               IN Returned(RadAngle(IF n < 0 THEN n + frac.value.d * twoPi ELSE n,
                                    frac.value.d))

\* [1/6, 1/4, 1/3, 1/2, 1] by their denominators
specials == <<6, 4, 3, 2, 1>>

Null == [kind |-> "null"]

\* value / s is p * den / q; it is within 1e-9 of an integer exactly when it
\* is one, a quotient of integers this small being no nearer than 1/q
RECURSIVE isSpecialMultipleFrom(_, _, _)
isSpecialMultipleFrom(p, q, k) ==
  IF k > Len(specials) THEN Null
  ELSE IF (p * specials[k]) % q = 0
       THEN [kind |-> "special", base |-> specials[k], m |-> (p * specials[k]) \div q]
       ELSE isSpecialMultipleFrom(p, q, k + 1)

isSpecialMultiple(p, q) == isSpecialMultipleFrom(p, q, 1)

\* Math.sin(j * pi / 12) in units of 1e-9, j = 0..23
MathSinTable ==
  <<0, 258819045, 500000000, 707106781, 866025404, 965925826,
    1000000000, 965925826, 866025404, 707106781, 500000000, 258819045,
    0, -258819045, -500000000, -707106781, -866025404, -965925826,
    -1000000000, -965925826, -866025404, -707106781, -500000000, -258819045>>

\* Math.sin and Math.cos of modStep * base * Math.PI, base = 1 / den
MathSin(modStep, den) == MathSinTable[(((12 * modStep) \div den) % 24) + 1]
MathCos(modStep, den) == MathSinTable[(((12 * modStep) \div den + 6) % 24) + 1]

\* baseVal in units of 1e-9, so that |baseVal - c| < 1e-9 reads |baseVal - c| < 1
valueForSpecial(baseVal, sign) ==
  IF Abs(baseVal) < 1 THEN Zero
  ELSE IF Abs(baseVal - 1000000000) < 1 THEN One(sign)
  ELSE IF Abs(baseVal - 500000000) < 1 THEN Half(sign)
  ELSE IF Abs(baseVal - 707106781) < 1 THEN Sqrt(2, sign, TRUE)
  ELSE IF Abs(baseVal - 866025404) < 1 THEN Sqrt(3, sign, TRUE)
  ELSE IF Abs(baseVal - 577350269) < 1 THEN Sqrt(3, sign, FALSE)
  ELSE RationalValue([double |-> sign * baseVal, unit |-> "1e-9"])

\* modStep = ((m % stepsPerTurn) + stepsPerTurn) % stepsPerTurn
modStepOf(m, stepsPerTurn) == (JsRem(m, stepsPerTurn) + stepsPerTurn) % stepsPerTurn

\* the angle of the quadrant check is modStep * base * pi, so that
\* floor((angle + 1e-12) / (pi / 2)) % 4 is floor(2 * modStep / den) % 4
quadrantOf(modStep, den) == ((2 * modStep) \div den) % 4

\* a sine that is negative in the second and third quadrant
sinSignAsCosSign(quadrant) == IF quadrant = 1 \/ quadrant = 2 THEN -1 ELSE 1

sinSign(quadrant) == IF quadrant = 2 \/ quadrant = 3 THEN -1 ELSE 1

cosSign(quadrant) == IF quadrant = 1 \/ quadrant = 2 THEN -1 ELSE 1

\* the values and the overrides for the cardinal angles, base = 1 / den
exactSinCosAt(den, modStep, quadrant) ==
  IF den = 1 /\ modStep % 2 = 0
  THEN Returned([sin |-> Zero, cos |-> One(IF modStep % 4 = 0 THEN 1 ELSE -1)])
  ELSE IF den = 2 /\ (modStep = 1 \/ modStep = 3)
  THEN Returned([sin |-> One(IF modStep = 1 THEN 1 ELSE -1), cos |-> Zero])
  ELSE Returned([sin |-> valueForSpecial(Abs(MathSin(modStep, den)), sinSign(quadrant)),
                 cos |-> valueForSpecial(Abs(MathCos(modStep, den)), cosSign(quadrant))])

exactSinCosStep(den, modStep) == exactSinCosAt(den, modStep, quadrantOf(modStep, den))

\* stepsPerTurn = Math.round(2 / base)
exactSinCosSpecial(spec) ==
  IF spec = Null THEN Returned(Null)
  ELSE exactSinCosStep(spec.base, modStepOf(spec.m, 2 * spec.base))

exactSinCosNorm(norm) ==
  IF ~norm.ok THEN norm
  ELSE exactSinCosSpecial(isSpecialMultiple(norm.value.p, norm.value.q))

exactSinCos(ang) ==
  exactSinCosNorm(normalizeAngle(IF ang.kind = "rad" THEN ang
                                 ELSE RadAngle(ang.value, 180)))

tanFromExact(sin, cos) ==
  IF cos.kind = "zero" THEN Undef
  ELSE IF sin.kind = "zero" THEN Zero
  ELSE IF sin.kind = "half" /\ cos.kind = "half" THEN One(sin.sign)
  ELSE IF sin.kind = "sqrt" /\ cos.kind = "half" /\ sin.overTwo
       THEN Sqrt(sin.n, sin.sign, FALSE)
  ELSE IF sin.kind = "half" /\ cos.kind = "sqrt" /\ cos.overTwo
       THEN Sqrt(cos.n, IF sin.sign = 1 THEN 1 ELSE -1, FALSE)
  ELSE Undef

\* approx(v) for the double v = Math.sin / Math.cos / Math.tan of the angle
approx(fn, ang) == RationalValue([n |-> [double |-> fn, of |-> ang], d |-> 1])

\* an angle that is no special multiple is no nearer than pi/2160 to one
\* where the cosine is zero, so the fallback takes approx(t) for the tangent
sinCosTanExactFrom(special, ang) ==
  IF ~special.ok THEN special
  ELSE IF special.value # Null
  THEN Returned([sin |-> special.value.sin, cos |-> special.value.cos,
                 tan |-> tanFromExact(special.value.sin, special.value.cos)])
  ELSE Returned([sin |-> approx("sin", ang), cos |-> approx("cos", ang),
                 tan |-> approx("tan", ang)])

sinCosTanExact(ang) == sinCosTanExactFrom(exactSinCos(ang), ang)

\* largest absolute numerator, denominator and degree value handed to a call
MaxP == 30
MaxQ == 6
MaxDeg == 400

AngleInputs ==
  {RadAngle(p, q) : p \in -MaxP..MaxP, q \in -MaxQ..MaxQ}
    \cup {DegAngle(v) : v \in -MaxDeg..MaxDeg}

InitAngle ==
  /\ input \in AngleInputs
  /\ op = "none"
  /\ out = "none"

CallNormalizeAngle ==
  /\ op = "none"
  /\ op' = "normalizeAngle"
  /\ out' = normalizeAngle(input)
  /\ UNCHANGED input

\* the caller hands the returned angle to normalizeAngle again
CallNormalizeAngleAgain ==
  /\ op = "normalizeAngle"
  /\ out.ok
  /\ op' = "normalizeAngleAgain"
  /\ input' = out.value
  /\ out' = normalizeAngle(out.value)

CallSinCosTanExact ==
  /\ op = "none"
  /\ op' = "sinCosTanExact"
  /\ out' = sinCosTanExact(input)
  /\ UNCHANGED input

NextAngle ==
  \/ CallNormalizeAngle
  \/ CallNormalizeAngleAgain
  \/ CallSinCosTanExact

SpecAngle == InitAngle /\ [][NextAngle]_vars

\* C14: for q # 0 normalizeAngle({rad,p,q}) returns {rad,p',q'} with q' > 0,
\* gcd(|p'|,q') = 1, 0 <= p' < 2q' and p'/q' congruent to p/q modulo 2; an
\* integer degree value v gives a degree value in [0,360) congruent to v
\* modulo 360 (-30 gives 330); normalizeAngle of a result is that result.
C14_NormalizeAngle ==
  /\ op = "normalizeAngle" /\ input.kind = "rad" /\ input.q # 0 =>
       /\ out.ok
       /\ out.value.kind = "rad"
       /\ out.value.q > 0
       /\ Coprime(Abs(out.value.p), out.value.q)
       /\ 0 <= out.value.p /\ out.value.p < 2 * out.value.q
       /\ (out.value.p * input.q - input.p * out.value.q)
            % (2 * Abs(input.q) * out.value.q) = 0
  /\ op = "normalizeAngle" /\ input.kind = "deg" =>
       /\ out.ok
       /\ out.value.kind = "deg"
       /\ 0 <= out.value.value /\ out.value.value < 360
       /\ (out.value.value - input.value) % 360 = 0
       /\ (input.value = -30 => out.value.value = 330)
  /\ op = "normalizeAngleAgain" => out = Returned(input)

\* a negative multiple of pi beyond a full turn, given over a negative
\* denominator and not in lowest terms, has been normalized twice
C14_Witness ==
  /\ op = "normalizeAngleAgain"
  /\ input = RadAngle(5, 3)
  /\ out = Returned(RadAngle(5, 3))

\* the angle in units of pi/12, defined when it is a whole number of them
Twelfths(ang) ==
  IF ang.kind = "deg" THEN ang.value \div 15
  ELSE (12 * ang.p * (IF ang.q < 0 THEN -1 ELSE 1)) \div Abs(ang.q)

\* an integer multiple of pi/6 or of pi/4
IsSixthOrQuarter(ang) ==
  IF ang.kind = "deg" THEN ang.value % 30 = 0 \/ ang.value % 45 = 0
  ELSE /\ ang.q # 0
       /\ (6 * ang.p) % Abs(ang.q) = 0 \/ (4 * ang.p) % Abs(ang.q) = 0

\* the standard exact sine of j * pi/12 for j * pi/12 a multiple of pi/6 or
\* pi/4: the magnitude from the reference angle, negative strictly between
\* pi and 2 pi
StandardSin(j) ==
  LET t == j % 24
      r == t % 12
      ref == IF r <= 6 THEN r ELSE 12 - r
      sign == IF t > 12 THEN -1 ELSE 1
  IN CASE ref = 0 -> Zero
       [] ref = 2 -> Half(sign)
       [] ref = 3 -> Sqrt(2, sign, TRUE)
       [] ref = 4 -> Sqrt(3, sign, TRUE)
       [] ref = 6 -> One(sign)

\* cos x = sin (x + pi/2)
StandardCos(j) == StandardSin(j + 6)

\* C12: for every integer multiple of pi/6 or pi/4 sinCosTanExact returns
\* for sin and cos the standard exact value of the angle reduced to
\* [0, 2 pi): magnitude 0, 1/2, sqrt(2)/2, sqrt(3)/2 or 1, sign by quadrant,
\* zero and +-1 at the multiples of pi/2; pi/6 gives sin 1/2 and 3pi/4
\* gives sin sqrt(2)/2, cos -sqrt(2)/2.
C12_ExactSinCos ==
  op = "sinCosTanExact" /\ IsSixthOrQuarter(input) =>
    /\ out.ok
    /\ out.value.sin = StandardSin(Twelfths(input))
    /\ out.value.cos = StandardCos(Twelfths(input))
    /\ (input = RadAngle(1, 6) => out.value.sin = Half(1))
    /\ (input = RadAngle(3, 4) =>
          out.value.sin = Sqrt(2, 1, TRUE) /\ out.value.cos = Sqrt(2, -1, TRUE))

\* the values of a negative multiple of pi/4 beyond a full turn, lying in
\* the second quadrant, have been returned
C12_Witness ==
  /\ op = "sinCosTanExact"
  /\ input = RadAngle(-13, 4)
  /\ out.ok
  /\ out.value.sin = Sqrt(2, 1, TRUE)
  /\ out.value.cos = Sqrt(2, -1, TRUE)

(***************************************************************************)
(* Numbers as text (trig-core.ts, set-logic.ts).  The texts of the model   *)
(* are made of digits, signs, '/', blanks, parentheses and letters; a      *)
(* number is an integer.                                                   *)
(***************************************************************************)
DigitChars == <<"0", "1", "2", "3", "4", "5", "6", "7", "8", "9">>

\* `${n}` for an integer n >= 0
RECURSIVE natToString(_)
natToString(n) ==
  IF n < 10 THEN <<DigitChars[n + 1]>>
  ELSE natToString(n \div 10) \o <<DigitChars[(n % 10) + 1]>>

\* `${n}` for an integer n
numberToString(n) == IF n < 0 THEN <<"-">> \o natToString(-n) ELSE natToString(n)

\* the value of a string of digits
RECURSIVE digitsValue(_)
digitsValue(s) ==
  IF s = << >> THEN 0
  ELSE 10 * digitsValue(SubSeq(s, 1, Len(s) - 1))
       + (CHOOSE k \in 0..9 : DigitChars[k + 1] = s[Len(s)])

\* /^\d+$/
IsDigits(s) == s # << >> /\ \A k \in DOMAIN s : s[k] \in Digits

Finite(value) == [finite |-> TRUE, value |-> value]
NaN == [finite |-> FALSE]

\* the digits of a hexadecimal literal, in lower case
HexChars == <<"0", "1", "2", "3", "4", "5", "6", "7", "8", "9", "a", "b", "c", "d", "e", "f">>

IsHexDigits(s) ==
  s # << >> /\ \A k \in DOMAIN s : \E h \in DOMAIN HexChars : HexChars[h] = LowerChar(s[k])

RECURSIVE hexValue(_)
hexValue(s) ==
  IF s = << >> THEN 0
  ELSE 16 * hexValue(SubSeq(s, 1, Len(s) - 1))
       + (CHOOSE k \in 0..15 : HexChars[k + 1] = LowerChar(s[Len(s)]))

\* 0x... or 0X..., without a sign
IsHexLiteral(t) ==
  Len(t) >= 3 /\ t[1] = "0" /\ t[2] \in {"x", "X"} /\ IsHexDigits(SubSeq(t, 3, Len(t)))

\* Number(text) once the white space around the text is gone: the empty
\* text is 0, an optional sign and digits are their value, a hexadecimal
\* literal is its value, any other text of the model is NaN
NumberTrimmed(t) ==
  IF t = << >> THEN Finite(0)
  ELSE IF IsDigits(t) THEN Finite(digitsValue(t))
  ELSE IF IsHexLiteral(t) THEN Finite(hexValue(SubSeq(t, 3, Len(t))))
  ELSE IF Head(t) = "-" /\ IsDigits(Tail(t)) THEN Finite(-digitsValue(Tail(t)))
  ELSE IF Head(t) = "+" /\ IsDigits(Tail(t)) THEN Finite(digitsValue(Tail(t)))
  ELSE NaN

Number(text) == NumberTrimmed(trim(text))

\* s.includes(c)
Includes(s, c) == \E k \in DOMAIN s : s[k] = c

\* s.indexOf(c) + 1, or Len(s) + 1 when c does not occur
IndexOrEnd(s, c) ==
  IF Includes(s, c) THEN CHOOSE k \in DOMAIN s : s[k] = c /\ \A j \in 1..(k - 1) : s[j] # c
  ELSE Len(s) + 1

\* s.split(c)[0]
SplitFirst(s, c) == SubSeq(s, 1, IndexOrEnd(s, c) - 1)

\* s.split(c)[1] for a text that includes c
SplitSecond(s, c) == SplitFirst(SubSeq(s, IndexOrEnd(s, c) + 1, Len(s)), c)

\* a rational as text that loses the sign of the numerator
rationalToStringNoSign(r) ==
  IF ~normalizeRational(r).ok THEN normalizeRational(r)
  ELSE IF normalizeRational(r).value.d = 1
       THEN Returned(numberToString(Abs(normalizeRational(r).value.n)))
       ELSE Returned(numberToString(Abs(normalizeRational(r).value.n)) \o <<"/">>
                     \o numberToString(normalizeRational(r).value.d))

rationalToString(r) ==
  IF ~normalizeRational(r).ok THEN normalizeRational(r)
  ELSE IF normalizeRational(r).value.d = 1
       THEN Returned(numberToString(normalizeRational(r).value.n))
       ELSE Returned(numberToString(normalizeRational(r).value.n) \o <<"/">>
                     \o numberToString(normalizeRational(r).value.d))

\* /^(-?\d+)\s+(\d+)\/(\d+)$/: the three groups, or Null
mixedMatchParts(whole, rest) ==
  IF /\ IsDigits(IF whole # << >> /\ Head(whole) = "-" THEN Tail(whole) ELSE whole)
     /\ rest # << >> /\ Head(rest) \in Whitespace
     /\ Includes(rest, "/")
     /\ IsDigits(SplitFirst(trim(rest), "/"))
     /\ IsDigits(SubSeq(trim(rest), IndexOrEnd(trim(rest), "/") + 1, Len(trim(rest))))
  THEN [kind |-> "match", whole |-> whole, num |-> SplitFirst(trim(rest), "/"),
        den |-> SubSeq(trim(rest), IndexOrEnd(trim(rest), "/") + 1, Len(trim(rest)))]
  ELSE Null

\* the text up to its first white space, and the text from there on
FirstSpace(s) ==
  IF \E k \in DOMAIN s : s[k] \in Whitespace
  THEN CHOOSE k \in DOMAIN s : s[k] \in Whitespace /\ \A j \in 1..(k - 1) : s[j] \notin Whitespace
  ELSE Len(s) + 1

mixedMatch(trimmed) ==
  mixedMatchParts(SubSeq(trimmed, 1, FirstSpace(trimmed) - 1),
                  SubSeq(trimmed, FirstSpace(trimmed), Len(trimmed)))

\* the mixed number whole num/den
parseRationalMixed(whole, num, den) ==
  IF den = 0 THEN Returned(Null)
  ELSE normalizeRational([n |-> (IF whole < 0 THEN -1 ELSE 1) * (Abs(whole) * den + num),
                          d |-> den])

\* [a, b] = trimmed.split('/').map(trim), n = Number(a), d = Number(b)
parseRationalFraction(n, d) ==
  IF ~n.finite \/ ~d.finite THEN Returned(Null)
  ELSE IF d.value = 0 THEN Returned(Null)
  ELSE normalizeRational([n |-> n.value, d |-> d.value])

parseRationalPlain(num) ==
  IF ~num.finite THEN Returned(Null)
  ELSE normalizeRational([n |-> num.value, d |-> 1])

parseRationalTrimmed(trimmed, mixed) ==
  IF trimmed = << >> THEN Returned(Null)
  ELSE IF mixed # Null
  THEN parseRationalMixed(Number(mixed.whole).value, Number(mixed.num).value,
                          Number(mixed.den).value)
  ELSE IF Includes(trimmed, "/")
  THEN parseRationalFraction(Number(SplitFirst(trimmed, "/")),
                             Number(SplitSecond(trimmed, "/")))
  ELSE parseRationalPlain(Number(trimmed))

parseRational(text) == parseRationalTrimmed(trim(text), mixedMatch(trim(text)))

\* largest absolute numerator and denominator written as text
MaxTextNum == 12
MaxTextDen == 12

InitRatText ==
  /\ \E n \in -MaxTextNum..MaxTextNum, d \in -MaxTextDen..MaxTextDen :
       input = [n |-> n, d |-> d]
  /\ op = "none"
  /\ out = "none"

CallRationalToString ==
  /\ op = "none"
  /\ op' = "rationalToString"
  /\ out' = rationalToString(input)
  /\ UNCHANGED input

\* the caller hands the text to parseRational
CallParseRational ==
  /\ op = "rationalToString"
  /\ out.ok
  /\ op' = "parseRational"
  /\ out' = parseRational(out.value)
  /\ UNCHANGED input

NextRatText ==
  \/ CallRationalToString
  \/ CallParseRational

SpecRatText == InitRatText /\ [][NextRatText]_vars

\* C16: for every rational r = {n,d} in lowest terms with d > 0 (negative n,
\* n = 0 and d = 1 included) parseRational(rationalToString(r)) returns a
\* rational with the same n and the same d.
C16_RationalRoundTrip ==
  op = "parseRational" /\ InLowestTerms(input) =>
    /\ out.ok
    /\ out.value # Null
    /\ out.value.n = input.n
    /\ out.value.d = input.d

\* a negative fraction with two-digit numerator and denominator has come
\* back from its text
C16_Witness ==
  /\ op = "parseRational"
  /\ input = [n |-> -11, d |-> 12]
  /\ out = Returned(input)

(***************************************************************************)
(* Exact values as text (trig-core.ts).                                    *)
(***************************************************************************)
\* the sign written in front of a root
signPrefix(sign) == IF sign = -1 THEN <<"-">> ELSE << >>

formatRational(r) ==
  IF ~r.ok THEN r
  ELSE IF r.value.d = 1 THEN Returned(numberToString(r.value.n))
  ELSE Returned(numberToString(r.value.n) \o <<"/">> \o numberToString(r.value.d))

formatExact(val) ==
  CASE val.kind = "zero" -> Returned(<<"0">>)
    [] val.kind = "one" ->
         Returned(IF val.sign = -1 THEN <<"-", "1">> ELSE <<"1">>)
    [] val.kind = "half" ->
         Returned(IF val.sign = -1 THEN <<"-", "1", "/", "2">> ELSE <<"1", "/", "2">>)
    [] val.kind = "sqrt" ->
         Returned(signPrefix(val.sign) \o <<"s", "q", "r", "t", "(">>
                  \o numberToString(val.n) \o <<")">>
                  \o (IF val.overTwo THEN <<"/", "2">> ELSE << >>))
    [] val.kind = "rational" -> formatRational(normRational(val.r))
    [] val.kind = "undef" -> Returned(<<"u", "n", "d", "e", "f">>)
    [] OTHER -> Returned(<< >>)

\* input.trim().replace(/\s+/g, '')
removeWhitespace(s) == SelectSeq(s, LAMBDA c : c \notin Whitespace)

\* /^(-?)sqrt\((\d+)\)(\/2)?$/i on the text after the optional sign
sqrtMatchBody(sign, body) ==
  IF /\ Len(body) >= 7
     /\ toLowerCase(SubSeq(body, 1, 5)) = <<"s", "q", "r", "t", "(">>
     /\ IsDigits(SubSeq(body, 6, IndexOrEnd(body, ")") - 1))
     /\ SubSeq(body, IndexOrEnd(body, ")") + 1, Len(body)) \in {<< >>, <<"/", "2">>}
  THEN [kind |-> "match", sign |-> sign,
        digits |-> SubSeq(body, 6, IndexOrEnd(body, ")") - 1),
        overTwo |-> SubSeq(body, IndexOrEnd(body, ")") + 1, Len(body)) # << >>]
  ELSE Null

sqrtMatch(t) ==
  IF t # << >> /\ Head(t) = "-" THEN sqrtMatchBody(<<"-">>, Tail(t))
  ELSE sqrtMatchBody(<< >>, t)

parseExactSqrt(found, n) ==
  IF n # 2 /\ n # 3 THEN Returned(Null)
  ELSE Returned(Sqrt(n, IF found.sign = <<"-">> THEN -1 ELSE 1, found.overTwo))

parseExactFraction(n, d) ==
  IF ~n.finite \/ ~d.finite THEN Returned(Null)
  ELSE IF d.value = 0 THEN Returned(Null)
  ELSE Returned(RationalValue(normRational([n |-> n.value, d |-> d.value]).value))

parseExactPlain(num) ==
  IF num.finite
  THEN Returned(RationalValue(normRational([n |-> num.value, d |-> 1]).value))
  ELSE Returned(Null)

parseExactText(t, found) ==
  IF t = << >> THEN Returned(Null)
  ELSE IF t = <<"0">> THEN Returned(Zero)
  ELSE IF t = <<"1">> THEN Returned(One(1))
  ELSE IF t = <<"-", "1">> THEN Returned(One(-1))
  ELSE IF t = <<"1", "/", "2">> THEN Returned(Half(1))
  ELSE IF t = <<"-", "1", "/", "2">> THEN Returned(Half(-1))
  ELSE IF t = <<"u", "n", "d", "e", "f">> THEN Returned(Undef)
  ELSE IF found # Null THEN parseExactSqrt(found, digitsValue(found.digits))
  ELSE IF Includes(t, "/")
  THEN parseExactFraction(Number(SplitFirst(t, "/")), Number(SplitSecond(t, "/")))
  ELSE parseExactPlain(Number(t))

parseExactValue(text) ==
  parseExactText(removeWhitespace(text), sqrtMatch(removeWhitespace(text)))

\* largest absolute numerator and largest denominator of a rational value
MaxExactNum == 12
MaxExactDen == 6

\* the values of the closed enumeration, the rationals in lowest terms
ExactValues ==
  {Zero, Undef} \cup {One(sg) : sg \in {1, -1}} \cup {Half(sg) : sg \in {1, -1}}
    \cup {Sqrt(n, sg, o) : n \in {2, 3}, sg \in {1, -1}, o \in BOOLEAN}
    \cup {RationalValue(r) : r \in {x \in [n : -MaxExactNum..MaxExactNum, d : 1..MaxExactDen] :
                                      InLowestTerms(x)}}

InitExact ==
  /\ input \in ExactValues
  /\ op = "none"
  /\ out = "none"

CallFormatExact ==
  /\ op = "none"
  /\ op' = "formatExact"
  /\ out' = formatExact(input)
  /\ UNCHANGED input

\* the caller hands the text to parseExactValue
CallParseExactValue ==
  /\ op = "formatExact"
  /\ out.ok
  /\ op' = "parseExactValue"
  /\ out' = parseExactValue(out.value)
  /\ UNCHANGED input

NextExact ==
  \/ CallFormatExact
  \/ CallParseExactValue

SpecExact == InitExact /\ [][NextExact]_vars

\* C13: for every ExactValue v among zero, one, half, sqrt, undef and any
\* rational result, parseExactValue(formatExact(v)) equals v, with the same
\* kind and the same fields.
C13_ExactRoundTrip ==
  op = "parseExactValue" => out = Returned(input)

(***************************************************************************)
(* The linear congruential generator (trig-fallacies.ts, set-logic.ts).    *)
(* A state is a 32-bit unsigned integer, kept as its two 16-bit halves.    *)
(***************************************************************************)
\* seed >>> 0
ToUint32(n) == [hi |-> (n \div 65536) % 65536, lo |-> n % 65536]

\* (1664525 * s + 1013904223) % 2 ** 32, with 1664525 = 25 * 2^16 + 26125
\* and 1013904223 = 15470 * 2^16 + 62303
lcgNext(s) ==
  [hi |-> (25 * s.lo + 26125 * s.hi + 15470 + (26125 * s.lo + 62303) \div 65536) % 65536,
   lo |-> (26125 * s.lo + 62303) % 65536]

\* Math.floor((s / 2 ** 32) * length)
scaledIndex(s, length) == (s.hi * length + (s.lo * length) \div 65536) \div 65536

(***************************************************************************)
(* Fallacy rules (trig-fallacies.ts).  The texts are written in ASCII; the *)
(* example of a rule is its template and the labels of the angles drawn,   *)
(* the numbers printed in it being functions of those angles.              *)
(***************************************************************************)
angleSamples == <<"0", "pi/6", "pi/4", "pi/3", "pi/2">>

\* angleSamples.filter(|cos| > 1e-6)
nonSingularAngles == <<"0", "pi/6", "pi/4", "pi/3">>

\* the list a rule draws its angles from
anglePool(rule) ==
  CASE rule.angles = "nonSingular" -> nonSingularAngles
    [] rule.angles = "sinBetween" -> <<"pi/6", "pi/4", "pi/3">>
    [] rule.angles = "nonZero" -> <<"pi/6", "pi/4", "pi/3">>

ruleBank ==
  <<[statement |-> "sin(a+b)=sin a cos b + cos a sin b", label |-> "always",
     explanation |-> "Additionstheorem Sinus.",
     condition |-> "",
     example |-> "Check: a, b", draws |-> 2, angles |-> "nonSingular"],
    [statement |-> "sin(a+b)=sin a + sin b", label |-> "false",
     explanation |-> "Fehlt Kreuzterm; nur fuer Spezialfaelle.",
     condition |-> "",
     example |-> "Gegenbeispiel a, b", draws |-> 2, angles |-> "nonSingular"],
    [statement |-> "cos(a+b)=cos a cos b - sin a sin b", label |-> "always",
     explanation |-> "Additionstheorem Cosinus.",
     condition |-> "",
     example |-> "Check: a, b", draws |-> 2, angles |-> "nonSingular"],
    [statement |-> "cos(a+b)=cos a + cos b", label |-> "false",
     explanation |-> "Fehlt Kreuzterm; stimmt nur selten.",
     condition |-> "",
     example |-> "Gegenbeispiel a, b", draws |-> 2, angles |-> "nonSingular"],
    [statement |-> "tan(a+b)=(tan a + tan b)/(1 - tan a tan b)", label |-> "sometimes",
     explanation |-> "Additionstheorem Tangens.",
     condition |-> "Definiert nur wenn tan a tan b != 1 und cos a, cos b != 0.",
     example |-> "gilt z.B. bei a, b; Gegenbeispiel a=pi/4, b=pi/4", draws |-> 2, angles |-> "nonSingular"],
    [statement |-> "tan(a+b)=tan a + tan b", label |-> "false",
     explanation |-> "Additionstheorem falsch vereinfacht.",
     condition |-> "",
     example |-> "Gegenbeispiel a, b", draws |-> 2, angles |-> "nonSingular"],
    [statement |-> "sin^2 x + cos^2 x = 1", label |-> "always",
     explanation |-> "Pythagoras auf dem Einheitskreis.",
     condition |-> "",
     example |-> "Check x", draws |-> 1, angles |-> "nonSingular"],
    [statement |-> "cos^2 x = 1 - sin x", label |-> "false",
     explanation |-> "Richtig waere 1 - sin^2 x.",
     condition |-> "",
     example |-> "Gegenbeispiel x", draws |-> 1, angles |-> "nonSingular"],
    [statement |-> "cos^2 x = 1 - sin^2 x", label |-> "always",
     explanation |-> "Umformung von sin^2+cos^2=1.",
     condition |-> "",
     example |-> "Check x", draws |-> 1, angles |-> "nonSingular"],
    [statement |-> "1 + tan^2 x = 1/cos^2 x", label |-> "sometimes",
     explanation |-> "Pythagoras geteilt durch cos^2.",
     condition |-> "Nur wenn cos x != 0.",
     example |-> "Bedingung cos x != 0. Beispiel x funktioniert; x=pi/2", draws |-> 1, angles |-> "nonSingular"],
    [statement |-> "sin(-x) = -sin x", label |-> "always",
     explanation |-> "Sinus ist ungerade.",
     condition |-> "",
     example |-> "Check x", draws |-> 1, angles |-> "nonSingular"],
    [statement |-> "cos(-x) = -cos x", label |-> "false",
     explanation |-> "Cosinus ist gerade: cos(-x)=cos x.",
     condition |-> "",
     example |-> "Gegenbeispiel x", draws |-> 1, angles |-> "nonSingular"],
    [statement |-> "tan(x+pi) = tan x", label |-> "sometimes",
     explanation |-> "Periode pi fuer Tangens.",
     condition |-> "Nur wenn tan definiert (cos x != 0).",
     example |-> "Gilt wenn tan definiert, z.B. x. Bei x=pi/2 ist tan(x) undef", draws |-> 1, angles |-> "nonSingular"],
    [statement |-> "sin(x+pi) = sin x", label |-> "false",
     explanation |-> "Richtig: sin(x+pi) = -sin x.",
     condition |-> "",
     example |-> "Gegenbeispiel x", draws |-> 1, angles |-> "nonSingular"],
    [statement |-> "sin(2x)=2 sin x cos x", label |-> "always",
     explanation |-> "Doppelwinkel Sinus.",
     condition |-> "",
     example |-> "Check x", draws |-> 1, angles |-> "nonSingular"],
    [statement |-> "cos(2x)=1-2 sin^2 x", label |-> "always",
     explanation |-> "Doppelwinkel Cosinus.",
     condition |-> "",
     example |-> "Check x", draws |-> 1, angles |-> "nonSingular"],
    [statement |-> "cos(2x)=1 - sin x", label |-> "false",
     explanation |-> "Fehlt Quadrat.",
     condition |-> "",
     example |-> "Gegenbeispiel x", draws |-> 1, angles |-> "nonSingular"],
    [statement |-> "sin^2 x = sin x", label |-> "sometimes",
     explanation |-> "Quadrat veraendert Wert ausser bei 0/1.",
     condition |-> "Nur fuer sin x in {0,1}.",
     example |-> "Gilt nur bei sin x in {0,1}, z.B. x=0. Gegenbeispiel x", draws |-> 1, angles |-> "sinBetween"],
    [statement |-> "sqrt(sin^2 x) = sin x", label |-> "false",
     explanation |-> "Richtig: |sin x|.",
     condition |-> "",
     example |-> "Gegenbeispiel x (Vorzeichenverlust)", draws |-> 1, angles |-> "nonZero"]>>

\* a generator that goes on from the state the last call left behind
rngLCGShared(seed) == IF op = "generateFallacyRule" THEN out.rngState ELSE ToUint32(seed)

\* rngLCG(seed): the state before the first draw
rngLCG(seed) == ToUint32(seed)

\* randomChoice(arr, rng) once rng has moved to state s
randomChoice(arr, s) == arr[scaledIndex(s, Len(arr)) + 1]

weightOf(rule, difficulty) ==
  IF rule.label = "sometimes"
  THEN (IF difficulty = "hard" THEN 3 ELSE IF difficulty = "medium" THEN 2 ELSE 1)
  ELSE 1

\* ruleBank.flatMap(rule => Array.from({length: weight}, () => rule))
RECURSIVE weightedFrom(_, _)
weightedFrom(k, difficulty) ==
  IF k > Len(ruleBank) THEN << >>
  ELSE [j \in 1..weightOf(ruleBank[k], difficulty) |-> ruleBank[k]]
       \o weightedFrom(k + 1, difficulty)

weighted(difficulty) == weightedFrom(1, difficulty)

\* exampleForRule(rule, rng) with rng in state s: the text and the state left
exampleForRule(rule, s) ==
  IF rule.draws = 2
  THEN [detail |-> <<rule.example, randomChoice(anglePool(rule), lcgNext(s)),
                     randomChoice(anglePool(rule), lcgNext(lcgNext(s)))>>,
        rngState |-> lcgNext(lcgNext(s))]
  ELSE [detail |-> <<rule.example, randomChoice(anglePool(rule), lcgNext(s))>>,
        rngState |-> lcgNext(s)]

labelToOption(label) ==
  CASE label = "always" -> "A"
    [] label = "sometimes" -> "B"
    [] label = "false" -> "C"

\* parts.join(...) kept as the list of the parts
feedbackParts(rule, detail) ==
  <<rule.explanation>>
    \o (IF rule.condition # "" THEN <<"Bedingung: ", rule.condition>> ELSE << >>)
    \o detail

fallacyTask(rule, example) ==
  [task |-> [rule |-> rule, feedback |-> feedbackParts(rule, example.detail),
             option |-> labelToOption(rule.label)],
   rngState |-> example.rngState]

fallacyTaskFor(rule, s) == fallacyTask(rule, exampleForRule(rule, s))

\* the task and the state the generator of the call is left in
generateFallacyRuleFrom(s, list) == fallacyTaskFor(randomChoice(list, lcgNext(s)), lcgNext(s))

generateFallacyRule(seed, difficulty) ==
  generateFallacyRuleFrom(rngLCG(IF seed = 0 THEN 1 ELSE seed), weighted(difficulty))

Difficulties == {"easy", "medium", "hard"}

\* largest absolute seed, next to the seed of the test
MaxSeed == 40
Seeds == (-MaxSeed..MaxSeed) \cup {12345}

InitFallacy ==
  /\ \E seed \in Seeds, difficulty \in Difficulties :
       input = [seed |-> seed, difficulty |-> difficulty]
  /\ op = "none"
  /\ out = "none"

CallGenerateFallacyRule ==
  /\ op = "none"
  /\ op' = "generateFallacyRule"
  /\ out' = generateFallacyRule(input.seed, input.difficulty)
  /\ UNCHANGED input

\* a second call with the same arguments; the first task is kept beside it
CallGenerateFallacyRuleAgain ==
  /\ op = "generateFallacyRule"
  /\ op' = "generateFallacyRuleAgain"
  /\ out' = [first |-> out.task,
             second |-> generateFallacyRule(input.seed, input.difficulty).task]
  /\ UNCHANGED input

NextFallacy ==
  \/ CallGenerateFallacyRule
  \/ CallGenerateFallacyRuleAgain

SpecFallacy == InitFallacy /\ [][NextFallacy]_vars

Draw(min, max) == [min |-> min, max |-> max]

\* rng.choice(list) for a list of the given length
Choice(length) == Draw(0, length - 1)

\* the k-th value drawn, 0 while it has not been drawn
At(v, k) == IF k <= Len(v) THEN v[k] ELSE 0

\* allowNeg && rng.choice([true, false])
SignDraw(allowNeg) == IF allowNeg THEN <<Choice(2)>> ELSE << >>

\* chooseInt(), chooseFrac()
chooseInt(intRange, allowNeg) == <<Draw(1, intRange)>> \o SignDraw(allowNeg)
chooseFrac(intRange, fracDenMax, allowNeg) ==
  <<Draw(2, fracDenMax), Draw(1, intRange)>> \o SignDraw(allowNeg)

\* the draws after the operands: the operator, the second operator of
\* difficulty easy, the clean division of medium integers
calcOperator(difficulty, useFrac, intRange, v, opAt) ==
  <<Choice(4)>>
    \o (IF difficulty = "easy" THEN <<Choice(3)>> ELSE << >>)
    \o (IF difficulty = "medium" /\ ~useFrac /\ At(v, opAt) = 3
        THEN <<Draw(1, intRange), Draw(1, intRange), Choice(2)>> ELSE << >>)

buildCalcTaskWith(difficulty, v, intRange, fracDenMax, allowNeg) ==
  <<Choice(IF difficulty = "hard" THEN 4 ELSE 3)>>
    \o CASE At(v, 1) = 2 ->
              <<Draw(2, fracDenMax), Draw(2, 6), Draw(1, intRange)>> \o SignDraw(allowNeg)
         [] At(v, 1) = 3 ->
              <<Draw(2, fracDenMax), Draw(1, intRange), Draw(1, At(v, 2) - 1)>>
                \o SignDraw(allowNeg)
         [] At(v, 1) = 1 ->
              chooseFrac(intRange, fracDenMax, allowNeg)
                \o chooseFrac(intRange, fracDenMax, allowNeg)
                \o calcOperator(difficulty, TRUE, intRange, v, IF allowNeg THEN 8 ELSE 6)
         [] OTHER ->
              chooseInt(intRange, allowNeg) \o chooseInt(intRange, allowNeg)
                \o calcOperator(difficulty, FALSE, intRange, v, IF allowNeg THEN 6 ELSE 4)

buildCalcTask(difficulty, v) ==
  buildCalcTaskWith(difficulty, v,
                    IF difficulty = "easy" THEN 9 ELSE IF difficulty = "medium" THEN 15 ELSE 20,
                    IF difficulty = "easy" THEN 9 ELSE IF difficulty = "medium" THEN 10 ELSE 12,
                    difficulty # "easy")

\* pickExp = rng.int(1, maxExp), pickBase = rng.choice(bases)
buildPowersTaskWith(v, pickExp, pickBase) ==
  <<Choice(7)>>
    \o CASE At(v, 1) = 6 -> <<Choice(4)>>
         [] At(v, 1) = 5 -> <<pickBase, pickExp, pickBase, pickExp, pickExp>>
         [] At(v, 1) = 4 ->
              <<pickBase, Choice(2)>> \o (IF At(v, 3) = 0 THEN <<pickExp>> ELSE << >>)
         [] At(v, 1) = 3 -> <<pickExp, pickBase, pickBase, Choice(2)>>
         [] OTHER -> <<pickBase, pickExp, pickExp>>

buildPowersTask(difficulty, v) ==
  buildPowersTaskWith(v,
                      Draw(1, IF difficulty = "easy" THEN 3
                              ELSE IF difficulty = "medium" THEN 4 ELSE 5),
                      Choice(4))

buildRootsTask(difficulty, v) ==
  <<Choice(4)>>
    \o CASE At(v, 1) = 2 -> << >>
         [] At(v, 1) = 3 -> << >>
         [] At(v, 1) = 1 -> <<Draw(8, IF difficulty = "easy" THEN 120 ELSE 200)>>
         [] OTHER -> <<Draw(2, IF difficulty = "hard" THEN 5 ELSE 4),
                       Draw(1, IF difficulty = "easy" THEN 3 ELSE 5), Choice(2)>>

buildBinomTask(difficulty, v) ==
  <<Choice(4)>>
    \o CASE At(v, 1) = 2 ->
              <<Draw(3, IF difficulty = "hard" THEN 20 ELSE 10), Draw(0, At(v, 2))>>
         [] At(v, 1) = 3 ->
              <<Draw(3, IF difficulty = "hard" THEN 10 ELSE 7), Draw(0, Min(At(v, 2), 4)),
                Draw(1, 3)>>
         [] OTHER ->
              <<Draw(1, IF difficulty = "easy" THEN 3 ELSE 4),
                Draw(1, IF difficulty = "easy" THEN 4 ELSE 6)>>
                \o (IF At(v, 1) = 0 THEN <<Choice(2)>> ELSE << >>)

buildQuadTask(difficulty, v) ==
  (IF difficulty = "hard"
   THEN <<Choice(2)>> \o (IF At(v, 1) = 0 THEN <<Draw(1, 3)>> ELSE << >>)
   ELSE << >>)
    \o <<IF difficulty = "easy" THEN Draw(-8, 8) ELSE Draw(-11, 11), Draw(-8, 10)>>

buildLogsTask(difficulty, v) ==
  <<Choice(7), Draw(2, 6)>>
    \o CASE At(v, 1) = 2 -> <<Draw(2, IF difficulty = "hard" THEN 6 ELSE 4)>>
         [] At(v, 1) = 3 -> <<Draw(2, 12)>>
         [] At(v, 1) = 4 -> <<Draw(1, 5), Choice(2)>>
         [] At(v, 1) = 5 ->
              <<Choice(2)>> \o (IF At(v, 3) = 0 THEN <<Draw(2, 15)>> ELSE <<Draw(1, 4)>>)
         [] OTHER -> << >>

buildSumsTask(difficulty, v) ==
  <<Choice(4)>>
    \o CASE At(v, 1) = 0 ->
              <<Choice(3), Draw(3, IF difficulty = "hard" THEN 7 ELSE 5)>>
                \o (IF At(v, 2) = 2 THEN <<Draw(2, 3)>> ELSE << >>)
         [] At(v, 1) = 1 -> <<Draw(3, 6)>>
         [] At(v, 1) = 2 -> <<Draw(3, 5)>>
         [] OTHER -> <<Choice(3)>>

MathModes ==
  {"mathCalc", "mathPowers", "mathRoots", "mathBinom", "mathQuad", "mathLogs", "mathSums"}

\* switch (mode) of generateTask
builderDraws(mode, difficulty, v) ==
  CASE mode = "mathCalc" -> buildCalcTask(difficulty, v)
    [] mode = "mathPowers" -> buildPowersTask(difficulty, v)
    [] mode = "mathRoots" -> buildRootsTask(difficulty, v)
    [] mode = "mathBinom" -> buildBinomTask(difficulty, v)
    [] mode = "mathQuad" -> buildQuadTask(difficulty, v)
    [] mode = "mathLogs" -> buildLogsTask(difficulty, v)
    [] OTHER -> buildSumsTask(difficulty, v)

\* a seed too wide for one integer of the model, hi * 2^16 + lo
WideNumber(n) == [hi |-> n \div 65536, lo |-> n % 65536]

\* a generator that goes on from the state the last call left behind
createRngShared(seed) ==
  IF op = "generateTask" THEN out.nextSeed ELSE [hi |-> seed.hi % 65536, lo |-> seed.lo]

\* createRng(seed): state = seed >>> 0
createRng(seed) == [hi |-> seed.hi % 65536, lo |-> seed.lo]

\* Math.floor(rand() * (max - min + 1)) + min once next() has given state s
rngInt(s, range) == scaledIndex(s, range.max - range.min + 1) + range.min

\* the builder from the point where v has been drawn and the state is s
RECURSIVE runBuilder(_, _, _, _)
runBuilderStep(mode, difficulty, s, v, draws) ==
  IF Len(v) >= Len(draws) THEN [nextSeed |-> s, draws |-> v]
  ELSE runBuilder(mode, difficulty, lcgNext(s),
                  Append(v, rngInt(lcgNext(s), draws[Len(v) + 1])))

runBuilder(mode, difficulty, s, v) ==
  runBuilderStep(mode, difficulty, s, v, builderDraws(mode, difficulty, v))

\* { ...task, mode, seed: seedUsed, nextSeed: rng.nextSeed }
taskOf(mode, difficulty, seed, built) ==
  [mode |-> mode, difficulty |-> difficulty, seed |-> seed,
   draws |-> built.draws, nextSeed |-> built.nextSeed]

generateTask(mode, difficulty, seed) ==
  taskOf(mode, difficulty, seed, runBuilder(mode, difficulty, createRng(seed), << >>))

\* largest absolute first seed and longest chain of tasks
MaxTaskSeed == 2
MaxChain == 2

\* the first seeds: small ones of either sign, one beyond 2^32
TaskSeeds ==
  {WideNumber(n) : n \in -MaxTaskSeed..MaxTaskSeed} \cup {[hi |-> 65539, lo |-> 7]}

InitTask ==
  /\ \E mode \in MathModes, difficulty \in Difficulties, seed \in TaskSeeds :
       input = [mode |-> mode, difficulty |-> difficulty, seed |-> seed, link |-> 0]
  /\ op = "none"
  /\ out = "none"

CallGenerateTask ==
  /\ op = "none"
  /\ op' = "generateTask"
  /\ out' = generateTask(input.mode, input.difficulty, input.seed)
  /\ UNCHANGED input

\* a second call with the same arguments; the first task is kept beside it
CallGenerateTaskAgain ==
  /\ op = "generateTask"
  /\ op' = "generateTaskAgain"
  /\ out' = [first |-> out,
             second |-> generateTask(input.mode, input.difficulty, input.seed)]
  /\ UNCHANGED input

\* the caller takes task.nextSeed as the seed of the next task
ChainNextSeed ==
  /\ op = "generateTask"
  /\ input.link < MaxChain
  /\ \E mode \in MathModes :
       input' = [mode |-> mode, difficulty |-> input.difficulty,
                 seed |-> out.nextSeed, link |-> input.link + 1]
  /\ op' = "none"
  /\ out' = "none"

NextTask ==
  \/ CallGenerateTask
  \/ CallGenerateTaskAgain
  \/ ChainNextSeed

SpecTask == InitTask /\ [][NextTask]_vars

\* a 32-bit value as its four bytes, lowest first
BytesOf(s) == <<s.lo % 256, s.lo \div 256, s.hi % 256, s.hi \div 256>>

\* (1664525 * s + 1013904223) mod 2^32 by long multiplication on bytes:
\* 1664525 = 0x19660D, 1013904223 = 0x3C6EF35F
LcgOnBytes(b) ==
  LET c0 == 13 * b[1] + 95
      c1 == 13 * b[2] + 102 * b[1] + 243 + c0 \div 256
      c2 == 13 * b[3] + 102 * b[2] + 25 * b[1] + 110 + c1 \div 256
      c3 == 13 * b[4] + 102 * b[3] + 25 * b[2] + 60 + c2 \div 256
  IN <<c0 % 256, c1 % 256, c2 % 256, c3 % 256>>

RECURSIVE LcgIterate(_, _)
LcgIterate(b, k) == IF k = 0 THEN b ELSE LcgIterate(LcgOnBytes(b), k - 1)

\* C18: generateTask returns the same task on every call with the same
\* mode, difficulty and seed; task.nextSeed is the state reached from the
\* seed modulo 2^32 by one step of the generator per draw of the builder, an
\* integer in [0, 2^32); a task generated from a nextSeed is reproducible too.
C18_TaskDeterministic ==
  /\ op = "generateTaskAgain" => out.second = out.first
  /\ op = "generateTask" =>
       /\ out.nextSeed.hi \in 0..65535 /\ out.nextSeed.lo \in 0..65535
       /\ BytesOf(out.nextSeed)
            = LcgIterate(BytesOf([hi |-> input.seed.hi % 65536, lo |-> input.seed.lo]),
                         Len(out.draws))
       /\ Len(out.draws) >= 1

\* a task of a chain, generated from the nextSeed of the task before it, has
\* come out the same a second time after more than four draws
C18_Witness ==
  /\ op = "generateTaskAgain"
  /\ input.link = MaxChain
  /\ input.mode = "mathCalc"
  /\ Len(out.first.draws) > 4
  /\ out.second = out.first

(***************************************************************************)
(* Answer checking.  The doubles of the expression evaluator are kept as   *)
(* exact fractions; NaN and the two infinities are values of their own; a  *)
(* finite result that is not a fraction of the model (an irrational root,  *)
(* logarithm or power, a power too large to write out) is kept as the way  *)
(* it was computed together with its sign.                                 *)
(***************************************************************************)
DNum(n, d) ==
  [kind |-> "num", n |-> ((IF d < 0 THEN -1 ELSE 1) * n) \div gcd(n, d),
   d |-> Abs(d) \div gcd(n, d)]
DNaN == [kind |-> "nan"]
DInf(sign) == [kind |-> "inf", sign |-> sign]
\* sign is 1 or -1, or 0 where the sign is not known
DReal(sign, term) == [kind |-> "real", sign |-> sign, term |-> term]

DZero == DNum(0, 1)
DOne == DNum(1, 1)

\* Number.isFinite
isFinite(v) == v.kind \in {"num", "real"}

\* Math.sign of a value that is not NaN
signOf(v) ==
  IF v.kind = "num" THEN (IF v.n > 0 THEN 1 ELSE IF v.n < 0 THEN -1 ELSE 0)
  ELSE v.sign

IsZero(v) == v.kind = "num" /\ v.n = 0

\* -v
dNeg(v) ==
  CASE v.kind = "num" -> DNum(-v.n, v.d)
    [] v.kind = "inf" -> DInf(-v.sign)
    [] v.kind = "real" -> DReal(-v.sign, <<"neg", v>>)
    [] OTHER -> DNaN

\* l + r
dAdd(l, r) ==
  CASE l.kind = "nan" \/ r.kind = "nan" -> DNaN
    [] l.kind = "inf" /\ r.kind = "inf" -> IF l.sign = r.sign THEN l ELSE DNaN
    [] l.kind = "inf" -> l
    [] r.kind = "inf" -> r
    [] l.kind = "num" /\ r.kind = "num" -> DNum(l.n * r.d + r.n * l.d, l.d * r.d)
    [] IsZero(l) -> r
    [] IsZero(r) -> l
    [] OTHER -> DReal(IF signOf(l) = signOf(r) THEN signOf(l) ELSE 0, <<"+", l, r>>)

\* l - r
dSub(l, r) == IF l.kind = "real" /\ l = r THEN DZero ELSE dAdd(l, dNeg(r))

\* l * r
dMul(l, r) ==
  CASE l.kind = "nan" \/ r.kind = "nan" -> DNaN
    [] l.kind = "inf" \/ r.kind = "inf" ->
         IF IsZero(l) \/ IsZero(r) THEN DNaN ELSE DInf(signOf(l) * signOf(r))
    [] l.kind = "num" /\ r.kind = "num" -> DNum(l.n * r.n, l.d * r.d)
    [] IsZero(l) \/ IsZero(r) -> DZero
    [] OTHER -> DReal(signOf(l) * signOf(r), <<"*", l, r>>)

\* l / r
dDiv(l, r) ==
  CASE l.kind = "nan" \/ r.kind = "nan" -> DNaN
    [] l.kind = "inf" /\ r.kind = "inf" -> DNaN
    [] l.kind = "inf" -> DInf(l.sign * (IF signOf(r) < 0 THEN -1 ELSE 1))
    [] r.kind = "inf" -> DZero
    [] IsZero(r) -> IF IsZero(l) THEN DNaN ELSE DInf(signOf(l))
    [] l.kind = "num" /\ r.kind = "num" -> DNum(l.n * r.d, l.d * r.n)
    [] IsZero(l) -> DZero
    [] l = r -> DOne
    [] OTHER -> DReal(signOf(l) * signOf(r), <<"/", l, r>>)

\* Math.abs
dAbs(v) ==
  CASE v.kind = "num" -> DNum(Abs(v.n), v.d)
    [] v.kind = "inf" -> DInf(1)
    [] v.kind = "real" -> IF v.sign = 1 THEN v ELSE DReal(1, <<"abs", v>>)
    [] OTHER -> DNaN

\* Math.abs(l - r) > 1e-6 for finite l and r: fractions are compared
\* exactly, a value that is not a fraction of the model is within the
\* tolerance of the values computed the same way only
FartherThanTolerance(l, r) ==
  IF l.kind = "num" /\ r.kind = "num"
  THEN Abs(l.n * r.d - r.n * l.d) > (l.d * r.d) \div 1000000
  ELSE l # r

\* the largest numerator or denominator the model writes out
ExactLimit == 16777216

\* b^e for integers b >= 0, e >= 0, or ExactLimit + 1 once it is larger
IntPowStep(b, power) ==
  IF power > ExactLimit \div Max(b, 1) THEN ExactLimit + 1 ELSE b * power

\* power times b, e times over, given up once it is larger than ExactLimit
RECURSIVE IntPowFrom(_, _, _)
IntPowFrom(b, e, power) ==
  IF e = 0 \/ power > ExactLimit THEN power
  ELSE IntPowFrom(b, e - 1, IntPowStep(b, power))

IntPow(b, e) ==
  IF e = 0 \/ b = 1 THEN 1 ELSE IF b = 0 THEN 0 ELSE IntPowFrom(b, e, 1)

\* the integer whose q-th power is n, or -1
IntRoot(n, q) ==
  IF \E k \in 0..Min(n, 4096) : IntPow(k, q) = n
  THEN CHOOSE k \in 0..Min(n, 4096) : IntPow(k, q) = n
  ELSE -1

\* the number of decimal digits of n >= 0
RECURSIVE NumDigits(_)
NumDigits(n) == IF n < 10 THEN 1 ELSE 1 + NumDigits(n \div 10)

\* l ** e for a fraction l # 0 and an integer e > 0
powPositiveInt(l, e) ==
  IF IntPow(Abs(l.n), e) <= ExactLimit /\ IntPow(l.d, e) <= ExactLimit
  THEN DNum((IF l.n < 0 /\ e % 2 = 1 THEN -1 ELSE 1) * IntPow(Abs(l.n), e), IntPow(l.d, e))
  ELSE IF l.d = 1 /\ (NumDigits(Abs(l.n)) - 1) * e >= 309
  THEN DInf(IF l.n < 0 /\ e % 2 = 1 THEN -1 ELSE 1)
  ELSE DReal(IF l.n < 0 /\ e % 2 = 1 THEN -1 ELSE 1, <<"pow", l, DNum(e, 1)>>)

\* l ** r for a fraction l > 0 and a fraction r > 0 that is not an integer
powPositiveFraction(l, r) ==
  IF IntRoot(l.n, r.d) >= 0 /\ IntRoot(l.d, r.d) >= 0
  THEN powPositiveInt(DNum(IntRoot(l.n, r.d), IntRoot(l.d, r.d)), r.n)
  ELSE DReal(1, <<"pow", l, r>>)

\* l ** r for fractions l and r
powNum(l, r) ==
  CASE r.n = 0 -> DOne
    [] l.n = 0 -> IF r.n > 0 THEN DZero ELSE DInf(1)
    [] r.d = 1 /\ r.n > 0 -> powPositiveInt(l, r.n)
    [] r.d = 1 /\ r.n < 0 -> powPositiveInt(DNum(l.d, l.n), -r.n)
    [] l.n < 0 -> DNaN
    [] r.n > 0 -> powPositiveFraction(l, r)
    [] OTHER -> powPositiveFraction(DNum(l.d, l.n), DNum(-r.n, r.d))

\* l ** r for finite l and r
dPow(l, r) ==
  CASE l.kind = "num" /\ r.kind = "num" -> powNum(l, r)
    [] IsZero(r) -> DOne
    [] IsZero(l) -> IF signOf(r) > 0 THEN DZero ELSE DInf(1)
    [] l = DOne -> DOne
    [] signOf(l) = 1 -> DReal(1, <<"pow", l, r>>)
    [] signOf(l) = -1 /\ r.kind = "num" /\ r.d = 1 ->
         DReal(IF r.n % 2 = 1 THEN -1 ELSE 1, <<"pow", l, r>>)
    [] signOf(l) = -1 -> DNaN

\* args[0] < 0 ? NaN : Math.sqrt(args[0])
dSqrt(v) ==
  CASE v.kind = "nan" -> DNaN
    [] v.kind = "inf" -> IF v.sign < 0 THEN DNaN ELSE v
    [] v.kind = "num" -> IF v.n < 0 THEN DNaN ELSE powNum(v, DNum(1, 2))
    [] v.kind = "real" /\ v.sign = -1 -> DNaN
    [] v.kind = "real" /\ v.sign = 1 -> DReal(1, <<"pow", v, DNum(1, 2)>>)

\* args[0] <= 0 ? NaN : Math.log(args[0])
dLog(v) ==
  CASE v.kind = "nan" -> DNaN
    [] v.kind = "inf" -> IF v.sign < 0 THEN DNaN ELSE v
    [] v.kind = "num" ->
         IF v.n <= 0 THEN DNaN
         ELSE IF v = DOne THEN DZero
         ELSE DReal(IF v.n > v.d THEN 1 ELSE -1, <<"ln", v>>)
    [] v.kind = "real" /\ v.sign = -1 -> DNaN
    [] v.kind = "real" /\ v.sign = 1 -> DReal(0, <<"ln", v>>)

\* Math.exp
dExp(v) ==
  CASE v.kind = "nan" -> DNaN
    [] v.kind = "inf" -> IF v.sign < 0 THEN DZero ELSE v
    [] v.kind = "num" ->
         IF v.n = 0 THEN DOne
         ELSE IF v.n > 709 * v.d THEN DInf(1)
         ELSE DReal(1, <<"exp", v>>)
    [] OTHER -> DReal(1, <<"exp", v>>)

\* the index after the run of characters of class that starts at index i
RECURSIVE RunEnd(_, _, _)
RunEnd(raw, i, class) ==
  IF i <= Len(raw) /\ raw[i] \in class THEN RunEnd(raw, i + 1, class) ELSE i

\* Number(numStr) for a run of digits and points
numberOfRun(numStr) ==
  IF IsDigits(numStr) THEN DNum(digitsValue(numStr), 1)
  ELSE IF Len(SelectSeq(numStr, LAMBDA c : c = ".")) = 1 /\ Len(numStr) > 1
  THEN DNum(digitsValue(SelectSeq(numStr, LAMBDA c : c # ".")),
            IntPow(10, Len(numStr) - IndexOrEnd(numStr, ".")))
  ELSE DNaN

NumToken(value) == [type |-> "num", value |-> value]
VarToken(name) == [type |-> "var", name |-> name]
OpToken(o) == [type |-> "op", op |-> o]
FuncToken(name) == [type |-> "func", name |-> name]
LParenToken == [type |-> "lparen"]
RParenToken == [type |-> "rparen"]
CommaToken == [type |-> "comma"]

\* the identifiers that are function names, in lower case
FuncNames ==
  {<<"s", "q", "r", "t">>, <<"a", "b", "s">>, <<"l", "n">>, <<"l", "o", "g">>,
   <<"e", "x", "p">>}

identToken(ident) ==
  IF toLowerCase(ident) \in FuncNames THEN FuncToken(toLowerCase(ident))
  ELSE VarToken(ident)

RECURSIVE tokenizeFrom(_, _, _)
tokenizeFrom(raw, i, tokens) ==
  IF i > Len(raw) THEN Returned(tokens)
  ELSE IF raw[i] \in Whitespace THEN tokenizeFrom(raw, i + 1, tokens)
  ELSE IF raw[i] \in Digits \cup {"."}
  THEN tokenizeFrom(raw, RunEnd(raw, i, Digits \cup {"."}),
                    Append(tokens,
                           NumToken(numberOfRun(SubSeq(raw, i,
                                                       RunEnd(raw, i, Digits \cup {"."}) - 1)))))
  ELSE IF raw[i] \in Letters
  THEN tokenizeFrom(raw, RunEnd(raw, i, Letters \cup Digits),
                    Append(tokens,
                           identToken(SubSeq(raw, i, RunEnd(raw, i, Letters \cup Digits) - 1))))
  ELSE IF raw[i] = "," THEN tokenizeFrom(raw, i + 1, Append(tokens, CommaToken))
  ELSE IF raw[i] \in {"+", "-", "*", "/", "^"}
  THEN tokenizeFrom(raw, i + 1, Append(tokens, OpToken(raw[i])))
  ELSE IF raw[i] = "(" THEN tokenizeFrom(raw, i + 1, Append(tokens, LParenToken))
  ELSE IF raw[i] = ")" THEN tokenizeFrom(raw, i + 1, Append(tokens, RParenToken))
  ELSE Thrown("Unbekanntes Symbol")

tokenize(raw) == tokenizeFrom(raw, 1, << >>)

\* what a method of ExprParser returns: the node and the new this.index
ParsedExpr(node, index) == [ok |-> TRUE, node |-> node, index |-> index]

\* tok && tok.type === 'op' && tok.op is one of ops, for tok = this.current()
CurrentIsOp(tokens, index, ops) ==
  /\ index < Len(tokens)
  /\ tokens[index + 1].type = "op"
  /\ tokens[index + 1].op \in ops

\* this.current()?.type === type
CurrentIs(tokens, index, type) == index < Len(tokens) /\ tokens[index + 1].type = type

BinNode(o, left, right) == [type |-> "bin", op |-> o, left |-> left, right |-> right]

RECURSIVE ExprParser_parseAddSub(_, _)
RECURSIVE ExprParser_parseMulDiv(_, _)
RECURSIVE ExprParser_parsePower(_, _)
RECURSIVE ExprParser_parseUnary(_, _)
RECURSIVE ExprParser_parsePrimary(_, _)
RECURSIVE addSubLoop(_, _)
RECURSIVE mulDivLoop(_, _)
RECURSIVE powerLoop(_, _)
RECURSIVE funcArgs(_, _, _, _)

\* the body of a while loop once the right operand has been parsed
addSubNext(tokens, left, right) ==
  IF ~right.ok THEN right
  ELSE addSubLoop(tokens,
                  ParsedExpr(BinNode(tokens[left.index + 1].op, left.node, right.node),
                         right.index))

addSubLoop(tokens, left) ==
  IF ~left.ok THEN left
  ELSE IF CurrentIsOp(tokens, left.index, {"+", "-"})
  THEN addSubNext(tokens, left, ExprParser_parseMulDiv(tokens, left.index + 1))
  ELSE left

ExprParser_parseAddSub(tokens, index) ==
  addSubLoop(tokens, ExprParser_parseMulDiv(tokens, index))

mulDivNext(tokens, left, right) ==
  IF ~right.ok THEN right
  ELSE mulDivLoop(tokens,
                  ParsedExpr(BinNode(tokens[left.index + 1].op, left.node, right.node),
                         right.index))

mulDivLoop(tokens, left) ==
  IF ~left.ok THEN left
  ELSE IF CurrentIsOp(tokens, left.index, {"*", "/"})
  THEN mulDivNext(tokens, left, ExprParser_parsePower(tokens, left.index + 1))
  ELSE left

ExprParser_parseMulDiv(tokens, index) ==
  mulDivLoop(tokens, ExprParser_parsePower(tokens, index))

powerNext(tokens, left, right) ==
  IF ~right.ok THEN right
  ELSE powerLoop(tokens, ParsedExpr(BinNode("^", left.node, right.node), right.index))

powerLoop(tokens, left) ==
  IF ~left.ok THEN left
  ELSE IF CurrentIsOp(tokens, left.index, {"^"})
  THEN powerNext(tokens, left, ExprParser_parseUnary(tokens, left.index + 1))
  ELSE left

ExprParser_parsePower(tokens, index) ==
  powerLoop(tokens, ExprParser_parseUnary(tokens, index))

unaryOf(o, arg) ==
  IF ~arg.ok THEN arg
  ELSE ParsedExpr([type |-> "unary", op |-> o, arg |-> arg.node], arg.index)

ExprParser_parseUnary(tokens, index) ==
  IF CurrentIsOp(tokens, index, {"+", "-"})
  THEN unaryOf(tokens[index + 1].op, ExprParser_parseUnary(tokens, index + 1))
  ELSE ExprParser_parsePrimary(tokens, index)

\* the expression in parentheses has been parsed: consume the ')'
closeParen(tokens, expr) ==
  IF ~expr.ok THEN expr
  ELSE IF ~CurrentIs(tokens, expr.index, "rparen")
  THEN Thrown("Schliessende Klammer fehlt.")
  ELSE ParsedExpr(expr.node, expr.index + 1)

\* one argument has been parsed: a comma and the next one, or the ')'
funcArgs(tokens, name, args, expr) ==
  IF ~expr.ok THEN expr
  ELSE IF CurrentIs(tokens, expr.index, "comma")
  THEN funcArgs(tokens, name, Append(args, expr.node),
                ExprParser_parseAddSub(tokens, expr.index + 1))
  ELSE IF ~CurrentIs(tokens, expr.index, "rparen") THEN Thrown("Klammer schliessen.")
  ELSE ParsedExpr([type |-> "func", name |-> name, args |-> Append(args, expr.node)],
              expr.index + 1)

ExprParser_parsePrimary(tokens, index) ==
  IF index >= Len(tokens) THEN Thrown("Unerwartetes Ende.")
  ELSE IF tokens[index + 1].type = "num"
  THEN ParsedExpr([type |-> "num", value |-> tokens[index + 1].value], index + 1)
  ELSE IF tokens[index + 1].type = "var"
  THEN ParsedExpr([type |-> "var", name |-> tokens[index + 1].name], index + 1)
  ELSE IF tokens[index + 1].type = "lparen"
  THEN closeParen(tokens, ExprParser_parseAddSub(tokens, index + 1))
  ELSE IF tokens[index + 1].type = "func"
  THEN IF ~CurrentIs(tokens, index + 1, "lparen") THEN Thrown("Klammer nach Funktion fehlt")
       ELSE funcArgs(tokens, tokens[index + 1].name, << >>,
                     ExprParser_parseAddSub(tokens, index + 2))
  ELSE Thrown("Unerwartetes Token")

\* ExprParser.parse
ExprParser_parse(tokens, expr) ==
  IF ~expr.ok THEN expr
  ELSE IF expr.index < Len(tokens)
  THEN Thrown("Eingabe konnte nicht vollstaendig gelesen werden.")
  ELSE Returned(expr.node)

parseExpr(text) ==
  IF ~tokenize(text).ok THEN tokenize(text)
  ELSE ExprParser_parse(tokenize(text).value,
                        ExprParser_parseAddSub(tokenize(text).value, 0))

\* the value of the first argument of a function
funcValue(name, arg) ==
  CASE name = <<"s", "q", "r", "t">> -> dSqrt(arg)
    [] name = <<"a", "b", "s">> -> dAbs(arg)
    [] name \in {<<"l", "n">>, <<"l", "o", "g">>} -> dLog(arg)
    [] name = <<"e", "x", "p">> -> dExp(arg)
    [] OTHER -> DNaN

\* case 'bin' once both operands have their values
binValue(o, l, r) ==
  CASE o = "+" -> dAdd(l, r)
    [] o = "-" -> dSub(l, r)
    [] o = "*" -> dMul(l, r)
    [] o = "/" -> IF IsZero(r) THEN DNaN ELSE dDiv(l, r)
    [] o = "^" -> IF isFinite(l) /\ isFinite(r) THEN dPow(l, r) ELSE DNaN
    [] OTHER -> DNaN

RECURSIVE evalExpr(_, _)
evalExpr(node, env) ==
  CASE node.type = "num" -> node.value
    [] node.type = "var" -> IF node.name \in DOMAIN env THEN env[node.name] ELSE DZero
    [] node.type = "unary" ->
         IF node.op = "-" THEN dNeg(evalExpr(node.arg, env)) ELSE evalExpr(node.arg, env)
    [] node.type = "bin" ->
         binValue(node.op, evalExpr(node.left, env), evalExpr(node.right, env))
    [] node.type = "func" -> funcValue(node.name, evalExpr(node.args[1], env))
    [] OTHER -> DNaN

\* rng.int(1, 5) + rng.int(0, 3) once next() has given the state s
sampleVarPositive(s) ==
  [val |-> rngInt(s, Draw(1, 5)) + rngInt(lcgNext(s), Draw(0, 3)), rng |-> lcgNext(s)]

\* rng.int(-3, 5) once next() has given the state s, 0 replaced by 2
sampleVarAny(s) ==
  [val |-> IF rngInt(s, Draw(-3, 5)) = 0 THEN 2 ELSE rngInt(s, Draw(-3, 5)), rng |-> s]

sampleVar(positiveOnly, s) ==
  IF positiveOnly THEN sampleVarPositive(lcgNext(s)) ELSE sampleVarAny(lcgNext(s))

\* sampleValues(): vars.forEach from the k-th variable on
RECURSIVE sampleValues(_, _, _, _, _)
sampleValuesPut(names, positiveOnly, k, env, drawn) ==
  sampleValues(names, positiveOnly, k + 1, (names[k] :> DNum(drawn.val, 1)) @@ env, drawn.rng)

sampleValues(names, positiveOnly, k, env, s) ==
  IF k > Len(names) THEN [env |-> env, rng |-> s]
  ELSE sampleValuesPut(names, positiveOnly, k, env, sampleVar(positiveOnly, s))

\* the number of sample points
SampleCount == 6

\* the seed of the sample points
SampleSeed == 123456789

\* the for loop of expressionsEqual from iteration i on
RECURSIVE sampleLoop(_, _, _, _, _, _)
sampleCompare(expAst, userAst, names, positiveOnly, i, s, left, right) ==
  IF ~isFinite(left) \/ ~isFinite(right) THEN FALSE
  ELSE IF FartherThanTolerance(left, right) THEN FALSE
  ELSE sampleLoop(expAst, userAst, names, positiveOnly, i + 1, s)

sampleStep(expAst, userAst, names, positiveOnly, i, sample) ==
  sampleCompare(expAst, userAst, names, positiveOnly, i, sample.rng,
                evalExpr(expAst, sample.env), evalExpr(userAst, sample.env))

sampleLoop(expAst, userAst, names, positiveOnly, i, s) ==
  IF i >= SampleCount THEN TRUE
  ELSE sampleStep(expAst, userAst, names, positiveOnly, i,
                  sampleValues(names, positiveOnly, 1, << >>, s))

\* expressionsEqual without its try and catch
expressionsEqualUncaught(expected, text, names, positiveOnly) ==
  IF ~parseExpr(expected).ok THEN parseExpr(expected)
  ELSE IF ~parseExpr(text).ok THEN parseExpr(text)
  ELSE Returned(sampleLoop(parseExpr(expected).value, parseExpr(text).value, names,
                           positiveOnly, 0, createRng(WideNumber(SampleSeed))))

expressionsEqual(expected, text, names, positiveOnly) ==
  IF ~parseExpr(expected).ok \/ ~parseExpr(text).ok THEN Returned(FALSE)
  ELSE Returned(sampleLoop(parseExpr(expected).value, parseExpr(text).value, names,
                           positiveOnly, 0, createRng(WideNumber(SampleSeed))))

\* exps[key] ?? 0
ExpOf(exps, key) == IF key \in DOMAIN exps THEN exps[key] ELSE 0

\* -?\d+
IsSignedDigits(s) == IsDigits(IF s # << >> /\ Head(s) = "-" THEN Tail(s) ELSE s)

\* parseInt(s, 10) of a text that matches -?\d+
parseIntSigned(s) == IF Head(s) = "-" THEN -digitsValue(Tail(s)) ELSE digitsValue(s)

\* /^([a-zA-Z]+)(\^(-?\d+))?$/ for a token whose letters end before index e
factorMatchAt(token, e) ==
  IF e = 1 THEN Null
  ELSE IF e > Len(token) THEN [base |-> SubSeq(token, 1, e - 1), exp |-> 1]
  ELSE IF token[e] = "^" /\ IsSignedDigits(SubSeq(token, e + 1, Len(token)))
  THEN [base |-> SubSeq(token, 1, e - 1),
        exp |-> parseIntSigned(SubSeq(token, e + 1, Len(token)))]
  ELSE Null

factorMatch(token) == factorMatchAt(token, RunEnd(token, 1, Letters))

\* exps[key] = (exps[key] ?? 0) + sign * exp
addExponent(st, key, amount) ==
  [st EXCEPT !.exps = (key :> (ExpOf(st.exps, key) + amount)) @@ st.exps]

\* applyFactor for a token that is not a number
applyFactorMatch(st, found, sign) ==
  IF found = Null THEN Null
  ELSE addExponent(st, toLowerCase(found.base), sign * found.exp)

\* applyFactor: the state after the factor, or Null where it returns false
applyFactor(st, token, sign) ==
  IF Number(token).finite
  THEN [st EXCEPT !.coeff =
          dMul(st.coeff,
               IF sign > 0 THEN DNum(Number(token).value, 1)
               ELSE dDiv(DOne, DNum(Number(token).value, 1)))]
  ELSE applyFactorMatch(st, factorMatch(token), sign)

\* flush: the state after it, or Null where it returns false
flush(st) ==
  IF st.current = << >> THEN st
  ELSE IF st.current = <<"-">>
  THEN [st EXCEPT !.coeff = dMul(st.coeff, DNum(-1, 1)), !.current = << >>]
  ELSE applyFactor([st EXCEPT !.current = << >>], st.current,
                   IF st.inDen THEN -1 ELSE 1)

\* the for loop of monomialFromString from the character at index i on
RECURSIVE monomialLoop(_, _, _)
monomialAfterFlush(cleaned, i, st, inDen) ==
  IF st = Null THEN Null
  ELSE monomialLoop(cleaned, i + 1, [st EXCEPT !.inDen = inDen])

monomialLoop(cleaned, i, st) ==
  IF i > Len(cleaned) THEN flush(st)
  ELSE IF cleaned[i] = "*" THEN monomialAfterFlush(cleaned, i, flush(st), st.inDen)
  ELSE IF cleaned[i] = "/" THEN monomialAfterFlush(cleaned, i, flush(st), TRUE)
  ELSE IF cleaned[i] \in {"(", ")"} THEN monomialLoop(cleaned, i + 1, st)
  ELSE IF cleaned[i] = "-" /\ (i = 1 \/ cleaned[i - 1] \in {"(", "/"})
  THEN monomialLoop(cleaned, i + 1, [st EXCEPT !.coeff = dMul(st.coeff, DNum(-1, 1))])
  ELSE monomialLoop(cleaned, i + 1, [st EXCEPT !.current = Append(st.current, cleaned[i])])

\* the returned monomial; a monomial without variables gets the key '1'
monomialOf(st) ==
  IF st = Null THEN Null
  ELSE [coeff |-> st.coeff,
        exps |-> IF DOMAIN st.exps = {} THEN (<<"1">> :> 0) ELSE st.exps]

monomialFromString(raw) ==
  IF removeWhitespace(raw) = << >> THEN Null
  ELSE monomialOf(monomialLoop(removeWhitespace(raw), 1,
                               [coeff |-> DOne, exps |-> << >>, current |-> << >>,
                                inDen |-> FALSE]))

\* Math.abs(a - b) > 1e-9 for two coefficients
coeffsApart(diff) ==
  CASE diff.kind = "inf" -> TRUE
    [] diff.kind = "num" -> diff.n > diff.d \div 1000000000
    [] OTHER -> FALSE

monomialsEqual(a, b) ==
  IF a.coeff.kind = "nan" \/ b.coeff.kind = "nan" THEN FALSE
  ELSE IF signOf(a.coeff) # signOf(b.coeff) \/ IsZero(a.coeff) # IsZero(b.coeff) THEN FALSE
  ELSE IF coeffsApart(dAbs(dSub(a.coeff, b.coeff))) THEN FALSE
  ELSE \A k \in DOMAIN a.exps \cup DOMAIN b.exps : ExpOf(a.exps, k) = ExpOf(b.exps, k)

\* s.replace(/-/g, '+-')
RECURSIVE replaceMinus(_)
replaceMinus(s) ==
  IF s = << >> THEN s
  ELSE (IF Head(s) = "-" THEN <<"+", "-">> ELSE <<Head(s)>>) \o replaceMinus(Tail(s))

\* s.split(c).filter(Boolean)
RECURSIVE splitNonEmpty(_, _)
splitNonEmpty(s, c) ==
  IF s = << >> THEN << >>
  ELSE (IF SplitFirst(s, c) = << >> THEN << >> ELSE <<SplitFirst(s, c)>>)
       \o splitNonEmpty(SubSeq(s, IndexOrEnd(s, c) + 1, Len(s)), c)

\* the index after the part of the text from index i on that matches \.?\d*
AfterPointDigits(part, i) ==
  RunEnd(part, IF i <= Len(part) /\ part[i] = "." THEN i + 1 ELSE i, Digits)

\* the index after the prefix that matches -?\d*\.?\d*
CoeffEnd(part) ==
  AfterPointDigits(part, RunEnd(part, IF part[1] = "-" THEN 2 ELSE 1, Digits))

\* /^(-?\d*\.?\d*)?(x)?(\^(-?\d+))?$/i for a coefficient that ends before e
termMatchAt(part, e, hasX) ==
  IF (IF hasX THEN e + 1 ELSE e) > Len(part)
  THEN [coeffStr |-> SubSeq(part, 1, e - 1), hasX |-> hasX, expStr |-> << >>]
  ELSE IF /\ part[IF hasX THEN e + 1 ELSE e] = "^"
          /\ IsSignedDigits(SubSeq(part, (IF hasX THEN e + 2 ELSE e + 1), Len(part)))
  THEN [coeffStr |-> SubSeq(part, 1, e - 1), hasX |-> hasX,
        expStr |-> SubSeq(part, (IF hasX THEN e + 2 ELSE e + 1), Len(part))]
  ELSE Null

termMatch(part) ==
  termMatchAt(part, CoeffEnd(part),
              CoeffEnd(part) <= Len(part) /\ part[CoeffEnd(part)] \in {"x", "X"})

\* exp = hasX ? (match[4] ? parseInt(match[4], 10) : 1) : 0
termExponent(found) ==
  IF found.hasX THEN (IF found.expStr # << >> THEN parseIntSigned(found.expStr) ELSE 1)
  ELSE 0

\* coeffStr after the two replacements
termCoeffStr(found) ==
  IF found.coeffStr = << >> THEN (IF found.hasX THEN <<"1">> ELSE <<"0">>)
  ELSE IF found.coeffStr = <<"-">> THEN <<"-", "1">>
  ELSE found.coeffStr

\* coeffs[exp] ?? 0; a parsed polynomial is kept as the record of its
\* coefficients under the name coeffs
CoeffOf(coeffs, exp) == IF exp \in DOMAIN coeffs THEN coeffs[exp] ELSE 0

\* the for loop of parsePolynomial from the k-th part on
RECURSIVE polynomialLoop(_, _, _)
polynomialTerm(parts, k, coeffs, found) ==
  IF found = Null THEN Null
  ELSE IF ~Number(termCoeffStr(found)).finite THEN Null
  ELSE polynomialLoop(parts, k + 1,
                      (termExponent(found) :>
                         (CoeffOf(coeffs, termExponent(found))
                          + Number(termCoeffStr(found)).value)) @@ coeffs)

polynomialLoop(parts, k, coeffs) ==
  IF k > Len(parts) THEN [kind |-> "polynomial", coeffs |-> coeffs]
  ELSE polynomialTerm(parts, k, coeffs, termMatch(parts[k]))

\* if (expr.startsWith('+-')) expr = expr.slice(1)
dropLeadingPlus(expr) ==
  IF Len(expr) >= 2 /\ expr[1] = "+" /\ expr[2] = "-" THEN Tail(expr) ELSE expr

parsePolynomial(text) ==
  IF removeWhitespace(text) = << >> THEN Null
  ELSE polynomialLoop(splitNonEmpty(dropLeadingPlus(replaceMinus(removeWhitespace(text))),
                                    "+"),
                      1, << >>)

\* Math.abs(ea - eb) > 1e-9 for no key; the coefficients are integers
polynomialsEqual(a, b) ==
  \A k \in DOMAIN a \cup DOMAIN b : ~(Abs(CoeffOf(a, k) - CoeffOf(b, k)) > 0)

\* simplifySqrt: the inner and the outer while loop
RECURSIVE simplifySqrtInner(_, _, _)
simplifySqrtInner(m, k, d) ==
  IF m % (d * d) = 0 THEN simplifySqrtInner(m \div (d * d), k * d, d)
  ELSE [k |-> k, m |-> m]

RECURSIVE simplifySqrtOuter(_, _, _)
simplifySqrtNext(form, d) == simplifySqrtOuter(form.m, form.k, d + 1)

simplifySqrtOuter(m, k, d) ==
  IF d * d <= m THEN simplifySqrtNext(simplifySqrtInner(m, k, d), d)
  ELSE [k |-> k, m |-> m]

simplifySqrt(value) == simplifySqrtOuter(value, 1, 2)

\* /^(-?\d+)?\*?sqrt\((\d+)\)$/i from index i on, the index after the
\* optional factor: the match with the digits of the radicand, or Null
sqrtBodyAt(cleaned, i) ==
  IF /\ Len(cleaned) >= i + 6
     /\ toLowerCase(SubSeq(cleaned, i, i + 4)) = <<"s", "q", "r", "t", "(">>
     /\ cleaned[Len(cleaned)] = ")"
     /\ IsDigits(SubSeq(cleaned, i + 5, Len(cleaned) - 1))
  THEN [kind |-> "match", m |-> SubSeq(cleaned, i + 5, Len(cleaned) - 1)]
  ELSE Null

\* the match for a factor that ends before index e (e = 1: no factor)
sqrtFormMatchAt(cleaned, e) ==
  IF e = 1 /\ Head(cleaned) = "-" THEN Null
  ELSE IF sqrtBodyAt(cleaned, IF e <= Len(cleaned) /\ cleaned[e] = "*"
                               THEN e + 1 ELSE e) = Null
  THEN Null
  ELSE [k |-> SubSeq(cleaned, 1, e - 1),
        m |-> sqrtBodyAt(cleaned, IF e <= Len(cleaned) /\ cleaned[e] = "*"
                                  THEN e + 1 ELSE e).m]

\* the index after the text that matches (-?\d+)?, 1 where the group is absent
FactorEnd(cleaned, e) ==
  IF e > (IF Head(cleaned) = "-" THEN 2 ELSE 1) THEN e ELSE 1

sqrtFormMatch(cleaned) ==
  sqrtFormMatchAt(cleaned,
                  FactorEnd(cleaned,
                            RunEnd(cleaned, IF Head(cleaned) = "-" THEN 2 ELSE 1, Digits)))

\* the form for the factor k and the simplified k * k * m
sqrtFormOf(k, simp) == [k |-> IF k < 0 THEN -simp.k ELSE simp.k, m |-> simp.m]

sqrtFormMatched(k, m) == sqrtFormOf(k, simplifySqrt(Abs(k) * Abs(k) * m))

parseSqrtFormCleaned(cleaned, found) ==
  IF cleaned = << >> THEN Null
  ELSE IF found # Null
  THEN sqrtFormMatched(IF found.k # << >> THEN Number(found.k).value ELSE 1,
                       Number(found.m).value)
  ELSE IF Number(cleaned).finite THEN [k |-> Number(cleaned).value, m |-> 1]
  ELSE Null

parseSqrtForm(text) ==
  parseSqrtFormCleaned(removeWhitespace(trim(text)),
                       IF removeWhitespace(trim(text)) = << >> THEN Null
                       ELSE sqrtFormMatch(removeWhitespace(trim(text))))

\* s.includes(sub)
IncludesText(s, sub) ==
  \E i \in 1..(Len(s) - Len(sub) + 1) : SubSeq(s, i, i + Len(sub) - 1) = sub

CheckResult(correct, feedback) == [correct |-> correct, feedback |-> feedback]

\* payload.kind === 'rational' once parseRational has returned or thrown
checkRational(task, parsed) ==
  IF ~parsed.ok THEN parsed
  ELSE IF parsed.value = Null
  THEN Returned(CheckResult(FALSE, "Bruch/Zahl konnte nicht gelesen werden."))
  ELSE IF parsed.value.n = task.payload.value.n /\ parsed.value.d = task.payload.value.d
  THEN Returned(CheckResult(TRUE, "Richtig gekuerzt!"))
  ELSE IF ~rationalToString(task.payload.value).ok THEN rationalToString(task.payload.value)
  ELSE Returned(CheckResult(FALSE, <<"Erwartet: ", rationalToString(task.payload.value).value,
                                     task.explanation>>))

\* payload.kind === 'numeric'; the tolerance is the default 1e-6
checkNumeric(task, parsed) ==
  IF ~parsed.ok THEN parsed
  ELSE IF parsed.value = Null
  THEN Returned(CheckResult(FALSE, "Zahl konnte nicht gelesen werden."))
  ELSE IF ~FartherThanTolerance(DNum(parsed.value.n, parsed.value.d),
                                DNum(task.payload.value, 1))
  THEN Returned(CheckResult(TRUE, "Passt!"))
  ELSE Returned(CheckResult(FALSE, <<"Erwartet: ", task.payload.value>>))

\* the special case of a solution with sqrt: k*sqrt(m) on both sides
checkSqrtForm(task, parsed, target) ==
  IF parsed = Null \/ target = Null
  THEN Returned(CheckResult(FALSE, "Form nicht erkannt. Nutze k*sqrt(m)."))
  ELSE IF parsed.k = target.k /\ parsed.m = target.m
  THEN Returned(CheckResult(TRUE, "Passt!"))
  ELSE Returned(CheckResult(FALSE, <<"Erwartet: ", task.solution>>))

\* payload.kind === 'expression' once expressionsEqual has returned or thrown
checkExpression(task, equal) ==
  IF ~equal.ok THEN equal
  ELSE IF equal.value THEN Returned(CheckResult(TRUE, "Korrekt umgeformt!"))
  ELSE Returned(CheckResult(FALSE, <<"Nicht aequivalent zur Ziel-Form", task.solution>>))

\* payload.kind === 'monomial'
checkMonomial(task, mono) ==
  IF mono = Null THEN Returned(CheckResult(FALSE, "Term konnte nicht gelesen werden."))
  ELSE IF task.payload.disallowNegative /\ \E k \in DOMAIN mono.exps : mono.exps[k] < 0
  THEN Returned(CheckResult(FALSE, "Bitte ohne negative Exponenten schreiben (als Bruch)."))
  ELSE IF monomialsEqual(task.payload.value, mono)
  THEN Returned(CheckResult(TRUE, "Passt!"))
  ELSE Returned(CheckResult(FALSE, <<"Erwartet: ", task.solution>>))

\* ['wahr', 'true', 'ja', 'richtig']
TrueWords == {<<"w", "a", "h", "r">>, <<"t", "r", "u", "e">>, <<"j", "a">>, <<"r", "i", "c", "h", "t", "i", "g">>}

\* payload.kind === 'boolean'
checkBoolean(task, lower) ==
  IF (lower \in TrueWords) = task.payload.value
  THEN Returned(CheckResult(TRUE, "Richtig bewertet!"))
  ELSE Returned(CheckResult(FALSE, <<"Das ist ", task.payload.value>>))

\* payload.kind === 'polynomial'
checkPolynomial(task, poly) ==
  IF poly = Null THEN Returned(CheckResult(FALSE, "Polynom konnte nicht gelesen werden."))
  ELSE IF polynomialsEqual(task.payload.coeffs, poly.coeffs)
  THEN Returned(CheckResult(TRUE, "Passt!"))
  ELSE Returned(CheckResult(FALSE, <<"Erwartet: ", task.solution>>))

\* payload.kind === 'text'
checkText(task, norm) ==
  IF \E k \in DOMAIN task.payload.accepts : task.payload.accepts[k] = norm
  THEN Returned(CheckResult(TRUE, "Passt!"))
  ELSE Returned(CheckResult(FALSE, <<"Erwartet: ", task.solution>>))

\* checkAnswer for the trimmed input
checkAnswerTrimmed(task, text) ==
  IF text = << >> THEN Returned(CheckResult(FALSE, "Bitte gib eine Antwort ein."))
  ELSE CASE task.payload.kind = "rational" -> checkRational(task, parseRational(text))
         [] task.payload.kind = "numeric" -> checkNumeric(task, parseRational(text))
         [] task.payload.kind = "expression" ->
              IF IncludesText(task.solution, <<"s", "q", "r", "t">>)
              THEN checkSqrtForm(task, parseSqrtForm(text), parseSqrtForm(task.solution))
              ELSE checkExpression(task,
                                   expressionsEqual(task.payload.expr, text,
                                                    task.payload.vars,
                                                    task.payload.positiveOnly))
         [] task.payload.kind = "monomial" -> checkMonomial(task, monomialFromString(text))
         [] task.payload.kind = "boolean" -> checkBoolean(task, toLowerCase(text))
         [] task.payload.kind = "polynomial" -> checkPolynomial(task, parsePolynomial(text))
         [] task.payload.kind = "text" ->
              checkText(task, toLowerCase(removeWhitespace(text)))
         [] OTHER -> Returned(CheckResult(FALSE, "Unbekannter Aufgabentyp."))

checkAnswer(task, userInputRaw) == checkAnswerTrimmed(task, trim(userInputRaw))

\* a text without explanation
NoText == << >>

\* tasks as the builders return them, one for each kind of payload and each
\* branch of checkAnswer, and one whose payload is of no known kind
CheckTasks ==
  {[solution |-> <<"1", "/", "2">>, explanation |-> NoText,
    payload |-> [kind |-> "rational", value |-> [n |-> 1, d |-> 2]]],
   [solution |-> <<"2">>, explanation |-> NoText,
    payload |-> [kind |-> "numeric", value |-> 2]],
   [solution |-> <<"(", "x", " ", "+", " ", "1", ")", "^", "2", " ", "-", " ", "2">>, explanation |-> NoText,
    payload |-> [kind |-> "expression", expr |-> <<"(", "x", " ", "+", " ", "1", ")", "^", "2", " ", "-", " ", "2">>, vars |-> <<<<"x">>>>,
                 positiveOnly |-> FALSE]],
   [solution |-> <<"2", "*", "s", "q", "r", "t", "(", "3", ")">>, explanation |-> NoText,
    payload |-> [kind |-> "expression", expr |-> <<"2", "*", "s", "q", "r", "t", "(", "3", ")">>, vars |-> << >>,
                 positiveOnly |-> FALSE]],
   [solution |-> <<"a", "^", "(", "1", "/", "2", ")">>, explanation |-> NoText,
    payload |-> [kind |-> "expression", expr |-> <<"a", "^", "(", "1", "/", "2", ")">>, vars |-> <<<<"a">>>>,
                 positiveOnly |-> TRUE]],
   [solution |-> <<"a", ">", "=", "0">>, explanation |-> NoText,
    payload |-> [kind |-> "expression", expr |-> <<"a", ">", "=", "0">>, vars |-> << >>,
                 positiveOnly |-> FALSE]],
   [solution |-> <<"2", "*", "x", "^", "3">>, explanation |-> NoText,
    payload |-> [kind |-> "monomial", value |-> [coeff |-> DNum(2, 1), exps |-> (<<"x">> :> 3)],
                 disallowNegative |-> TRUE]],
   [solution |-> <<"w", "a", "h", "r">>, explanation |-> NoText,
    payload |-> [kind |-> "boolean", value |-> TRUE]],
   [solution |-> <<"x", "^", "2", "+", "2", "x", "+", "1">>, explanation |-> NoText,
    payload |-> [kind |-> "polynomial", coeffs |-> (2 :> 1) @@ (1 :> 2) @@ (0 :> 1)]],
   [solution |-> <<"2", "^", "3">>, explanation |-> NoText,
    payload |-> [kind |-> "text", accepts |-> <<<<"2", "^", "3">>, <<"2", "*", "*", "3">>>>]],
   [solution |-> NoText, explanation |-> NoText, payload |-> [kind |-> "other"]]}

\* the characters of the short answers
InputChars == {"0", "1", "2", "x", "/", "-", "^", "(", ")"}

\* the longest answer made of every combination of InputChars
MaxInputLen == 4

\* answers for the cases of checkAnswer: empty, unreadable, a denominator 0,
\* a division by zero, a root or logarithm of a number that is not positive,
\* right and wrong answers to CheckTasks
LongInputs ==
  {<< >>,
   <<" ">>,
   <<" ", "1", "/", "2", " ">>,
   <<"2", "/", "4">>,
   <<"1", "/", "0">>,
   <<"1", " ", "1", "/", "0">>,
   <<"1", " ", "1", "/", "2">>,
   <<"x", "/", "0">>,
   <<"0", "/", "0">>,
   <<"1", "/", "(", "x", "-", "x", ")">>,
   <<"x", "/", "(", "x", "-", "x", ")">>,
   <<"s", "q", "r", "t", "(", "-", "1", ")">>,
   <<"s", "q", "r", "t", "(", "0", "-", "x", "*", "x", ")">>,
   <<"l", "n", "(", "0", ")">>,
   <<"l", "o", "g", "(", "-", "2", ")">>,
   <<"l", "n", "(", "x", "-", "x", ")">>,
   <<"e", "x", "p", "(", "0", ")", "+", "l", "n", "(", "1", ")">>,
   <<"0", "^", "-", "1">>,
   <<"(", "-", "2", ")", "^", "(", "1", "/", "2", ")">>,
   <<"(", "x", "+", "1", ")", "^", "2", "-", "2">>,
   <<"x", "^", "2", "+", "2", "*", "x", "-", "1">>,
   <<"x", "*", "x", "+", "2", "*", "x", "-", "1", "+", "s", "q", "r", "t", "(", "-", "1", ")">>,
   <<"a", "^", "(", "1", "/", "2", ")">>,
   <<"s", "q", "r", "t", "(", "a", ")">>,
   <<"s", "q", "r", "t", "(", "0", "-", "a", ")">>,
   <<"l", "n", "(", "a", "-", "a", ")">>,
   <<"2", "*", "s", "q", "r", "t", "(", "3", ")">>,
   <<"s", "q", "r", "t", "(", "1", "2", ")">>,
   <<"-", "2", "s", "q", "r", "t", "(", "3", ")">>,
   <<"s", "q", "r", "t", "(", "-", "3", ")">>,
   <<"2", "*", "s", "q", "r", "t", "(", "x", ")">>,
   <<"1", "2">>,
   <<"2", "*", "x", "^", "3">>,
   <<"2", "*", "x", "^", "4", "/", "x">>,
   <<"4", "*", "x", "^", "3", "/", "2">>,
   <<"2", "/", "x", "^", "-", "3">>,
   <<"x", "^", "3", "/", "0">>,
   <<"0", "*", "x", "^", "3", "/", "0">>,
   <<"2", "*", "x", "^", "$">>,
   <<"x", "^", "2", "+", "2", "x", "+", "1">>,
   <<"1", "+", "2", "x", "+", "x", "^", "2">>,
   <<"x", "^", "2", "+", "2", "x", "+">>,
   <<"x", "^", "2", "+", "2", "y">>,
   <<"w", "a", "h", "r">>,
   <<"J", "a">>,
   <<"f", "a", "l", "s", "c", "h">>,
   <<"2", "^", "3">>,
   <<"2", " ", "*", "*", " ", "3">>,
   <<"a", ">", "=", "0">>,
   <<"$">>,
   <<"2", "(", "x">>,
   <<"s", "q", "r", "t", "(">>,
   <<"a", "b", "s", "(", "-", "2">>,
   <<"l", "n", " ", "2">>,
   <<"1", ",", "2">>,
   <<"s", "q", "r", "t", "(", "4", ",", "-", "1", ")">>}

InputTexts == LongInputs \cup UNION {[1..k -> InputChars] : k \in 0..MaxInputLen}

InitCheck ==
  /\ \E task \in CheckTasks, text \in InputTexts : input = [task |-> task, text |-> text]
  /\ op = "none"
  /\ out = "none"

CallCheckAnswer ==
  /\ op = "none"
  /\ op' = "checkAnswer"
  /\ out' = checkAnswer(input.task, input.text)
  /\ UNCHANGED input

NextCheck == CallCheckAnswer

SpecCheck == InitCheck /\ [][NextCheck]_vars

\* the branch of checkAnswer that the payload selects cannot read the text
InputUnparsable(task, text) ==
  \/ text = << >>
  \/ /\ task.payload.kind \in {"rational", "numeric"}
     /\ parseRational(text) = Returned(Null)
  \/ /\ task.payload.kind = "expression"
     /\ IncludesText(task.solution, <<"s", "q", "r", "t">>)
     /\ parseSqrtForm(text) = Null
  \/ /\ task.payload.kind = "expression"
     /\ ~IncludesText(task.solution, <<"s", "q", "r", "t">>)
     /\ ~parseExpr(text).ok
  \/ task.payload.kind = "monomial" /\ monomialFromString(text) = Null
  \/ task.payload.kind = "polynomial" /\ parsePolynomial(text) = Null

\* the values of the variables at the i-th sample point
RECURSIVE SampleAt(_, _, _, _)
SampleAt(names, positiveOnly, i, s) ==
  IF i = 1 THEN sampleValues(names, positiveOnly, 1, << >>, s).env
  ELSE SampleAt(names, positiveOnly, i - 1,
                sampleValues(names, positiveOnly, 1, << >>, s).rng)

\* both sides are expressions and one of them has a value that is not
\* finite at one of the sample points
NonFiniteAtSample(task, text) ==
  /\ task.payload.kind = "expression"
  /\ ~IncludesText(task.solution, <<"s", "q", "r", "t">>)
  /\ parseExpr(task.payload.expr).ok
  /\ parseExpr(text).ok
  /\ \E i \in 1..SampleCount :
       \/ ~isFinite(evalExpr(parseExpr(task.payload.expr).value,
                             SampleAt(task.payload.vars, task.payload.positiveOnly, i,
                                      createRng(WideNumber(SampleSeed)))))
       \/ ~isFinite(evalExpr(parseExpr(text).value,
                             SampleAt(task.payload.vars, task.payload.positiveOnly, i,
                                      createRng(WideNumber(SampleSeed)))))

TableVarNames == {"A", "B", "C"}
MaxTableConn == 2
MaxTableRightConn == 0

InitTable ==
  /\ \E l \in FormulasUpTo(TableVarNames, MaxTableConn),
        r \in FormulasUpTo(TableVarNames, MaxTableRightConn) :
       input = [left |-> l, right |-> r]
  /\ op = "none"
  /\ out = "none"

CallTruthTable ==
  /\ op = "none"
  /\ op' = "truthTable"
  /\ out' = truthTable(input.left)
  /\ UNCHANGED input

NextTable ==
  \/ CallTruthTable
  \/ CallTruthTableEquality

SpecTable == InitTable /\ [][NextTable]_vars

\* the place of a letter in the alphabet
LetterIndex(c) == CHOOSE k \in DOMAIN UpperAZ : UpperAZ[k] = c

\* the list holds exactly the names of S, in alphabetical order, each once
SortedListOf(list, S) ==
  /\ {list[k] : k \in DOMAIN list} = S
  /\ \A j, k \in DOMAIN list : j < k => LetterIndex(list[j]) < LetterIndex(list[k])

\* bit b of idx is 1
BitOf(idx, b) == (idx \div (2 ^ b)) % 2 = 1

\* there are 2^k assignments for the k variables, and in the assignment of
\* row idx the i-th variable (0-based) is true exactly when bit k-1-i of idx is 1
MsbFirstRows(assignments, variables) ==
  /\ Len(assignments) = 2 ^ Len(variables)
  /\ \A idx \in 0..(Len(assignments) - 1) :
       /\ DOMAIN assignments[idx + 1] = {variables[k] : k \in DOMAIN variables}
       /\ \A i \in 0..(Len(variables) - 1) :
            assignments[idx + 1][variables[i + 1]] = BitOf(idx, Len(variables) - 1 - i)
  /\ \A name \in DOMAIN assignments[1] : assignments[1][name] = FALSE

\* C20: truthTable(f) lists the variables of f in alphabetical order without
\* duplicates and has 2^k rows; in row idx the i-th variable is true exactly
\* when bit k-1-i of idx is 1, so the first variable is the most significant
\* bit and row 0 is all false; truthTableEquality orders its rows the same
\* way over the union of the variables of both formulas.
C20_TruthTableLayout ==
  /\ op = "truthTable" =>
       /\ SortedListOf(out.variables, collectVariables(input.left))
       /\ MsbFirstRows([r \in DOMAIN out.rows |-> out.rows[r].assignment], out.variables)
  /\ op = "truthTableEquality" =>
       \E variables \in UNION {[1..k -> TableVarNames] : k \in 0..Cardinality(TableVarNames)} :
         /\ SortedListOf(variables,
                         collectVariables(input.left) \cup collectVariables(input.right))
         /\ MsbFirstRows([r \in DOMAIN out.table |-> out.table[r].assignment], variables)

\* the table of a formula that names C before A and has three variables:
\* row 4 sets the first variable, A, and neither B nor C
C20_Witness ==
  /\ op = "truthTable"
  /\ input.left.type = "or"
  /\ input.left.left = [type |-> "var", name |-> "C"]
  /\ out.variables = <<"A", "B", "C">>
  /\ Len(out.rows) = 8
  /\ out.rows[5].assignment = ("A" :> TRUE) @@ ("B" :> FALSE) @@ ("C" :> FALSE)

(***************************************************************************)
(* The tangent of the special angles                                       *)
(***************************************************************************)
\* the sign of an exact value: 0 for zero, else its sign field
ExactSign(v) == IF v.kind = "zero" THEN 0 ELSE v.sign

\* magnitude sqrt(2)/2
IsHalfSqrtTwo(v) == v.kind = "sqrt" /\ v.n = 2 /\ v.overTwo

\* magnitude sqrt(n)/2
IsHalfSqrt(v) == v.kind = "sqrt" /\ v.overTwo

\* the claimed tangent of a (sin, cos) pair
ClaimedTan(s, c, t) ==
  /\ (t.kind = "undef") <=> (c.kind = "zero")
  /\ (s.kind = "zero" /\ c.kind # "zero" => t = Zero)
  /\ (IsHalfSqrtTwo(s) /\ IsHalfSqrtTwo(c) => t = One(s.sign * c.sign))
  /\ (s.kind = "half" /\ IsHalfSqrt(c) => t = Sqrt(c.n, s.sign * c.sign, FALSE))
  /\ (IsHalfSqrt(s) /\ c.kind = "half" => t = Sqrt(s.n, s.sign * c.sign, FALSE))
  /\ (t.kind \in {"one", "half", "sqrt"} => t.sign = ExactSign(s) * ExactSign(c))

\* C21: for the (sin, cos) pair that sinCosTanExact computes for a special
\* angle, tan is undef exactly when cos is zero, zero when sin is zero and
\* cos is not, +-1 when both have magnitude sqrt(2)/2, +-sqrt(n) when one is
\* +-1/2 and the other +-sqrt(n)/2, and the sign of a non-zero tan is the
\* product of the signs of sin and cos.
C21_TanFromExact ==
  op = "sinCosTanExact" /\ IsSixthOrQuarter(input) =>
    /\ out.ok
    /\ ClaimedTan(out.value.sin, out.value.cos, out.value.tan)

(***************************************************************************)
(* astToString (logic.ts): the printed form of a formula, a text of code   *)
(* units, and parseFormula applied to it.                                  *)
(***************************************************************************)
precedence == [or |-> 1, and |-> 2]

\* `(${combined})`
inParens(combined) == <<"(">> \o combined \o <<")">>

\* `${left} ${symbol} ${right}`
joined(left, symbol, right) == left \o <<" ", symbol, " ">> \o right

\* a printer that never wraps a conjunction or disjunction
parenthesizeNever(current, parentPrecedence, combined) == combined

\* current < parentPrecedence ? `(${combined})` : combined
parenthesize(current, parentPrecedence, combined) ==
  IF current < parentPrecedence THEN inParens(combined) ELSE combined

RECURSIVE formatNode(_, _)
formatNode(node, parentPrecedence) ==
  CASE node.type = "var" -> <<node.name>>
    [] node.type = "not" -> <<SymNot>> \o formatNode(node.child, 3)
    [] node.type \in {"and", "or"} ->
         parenthesize(precedence[node.type], parentPrecedence,
                      joined(formatNode(node.left, precedence[node.type]),
                             IF node.type = "and" THEN SymAnd ELSE SymOr,
                             formatNode(node.right, precedence[node.type])))
    [] node.type = "imp" ->
         inParens(joined(formatNode(node.left, 0), SymImp, formatNode(node.right, 0)))
    [] node.type = "iff" ->
         inParens(joined(formatNode(node.left, 0), SymIff, formatNode(node.right, 0)))
    [] OTHER -> << >>

astToString(node) == formatNode(node, 0)

\* most connectives of a printed formula over A, B and over A, B, C
MaxPrintConn == 3
MaxPrintWideConn == 2

InitPrint ==
  /\ input \in [f : FormulasUpTo({"A", "B"}, MaxPrintConn)
                      \cup FormulasUpTo(VarNames, MaxPrintWideConn)]
  /\ op = "none"
  /\ out = "none"

CallAstToString ==
  /\ op = "none"
  /\ op' = "astToString"
  /\ out' = Returned(astToString(input.f))
  /\ UNCHANGED input

\* the printed text is typed back: parseFormula(astToString(f))
CallParseFormulaOfPrinted ==
  /\ op = "astToString"
  /\ op' = "parseFormula"
  /\ input' = [f |-> input.f, text |-> out.value]
  /\ out' = parseFormula(out.value)

NextPrint ==
  \/ CallAstToString
  \/ CallParseFormulaOfPrinted

SpecPrint == InitPrint /\ [][NextPrint]_vars

SymbolOf(node) ==
  CASE node.type = "and" -> SymAnd
    [] node.type = "or" -> SymOr
    [] node.type = "imp" -> SymImp
    [] node.type = "iff" -> SymIff

\* the text with parentheses only around a sub-formula that binds weaker
\* than its parent
RECURSIVE MinimalBody(_)
MinimalText(node, parentStrength) ==
  IF Strength(node) < parentStrength THEN <<"(">> \o MinimalBody(node) \o <<")">>
  ELSE MinimalBody(node)
MinimalBody(node) ==
  CASE node.type = "var" -> <<node.name>>
    [] node.type = "not" -> <<SymNot>> \o MinimalText(node.child, Strength(node))
    [] OTHER -> MinimalText(node.left, Strength(node))
                  \o <<" ", SymbolOf(node), " ">>
                  \o MinimalText(node.right, Strength(node))

\* C22: astToString wraps a sub-formula in parentheses only when it binds
\* weaker than its parent operator and nowhere else; a top-level formula, a
\* top-level implication or biconditional included, has no outer
\* parentheses.
C22_MinimalParens ==
  op = "astToString" => out = Returned(MinimalText(input.f, 0))

SymMiddot == "U+00B7"

\* const bases = ['a', 'b', 'x', 'y']
bases == <<"a", "b", "x", "y">>

\* rng.choice(bases) for the index drawn
BaseAt(index) == bases[index + 1]

\* e === 1 ? v : `${v}^${e}`
powerText(v, e) == IF e = 1 THEN <<v>> ELSE <<v, "^">> \o numberToString(e)

\* vars.forEach of monomialToString from the k-th sorted key on; the keys
\* of a builder's monomial are single lower-case letters
RECURSIVE monomialParts(_, _, _)
monomialParts(exps, keys, k) ==
  IF k > Len(keys) THEN << >>
  ELSE (IF exps[<<keys[k]>>] = 0 THEN << >>
        ELSE <<powerText(keys[k], exps[<<keys[k]>>])>>)
         \o monomialParts(exps, keys, k + 1)

\* parts.join(SymMiddot)
RECURSIVE joinParts(_)
joinParts(parts) ==
  IF parts = << >> THEN << >>
  ELSE IF Len(parts) = 1 THEN parts[1]
  ELSE parts[1] \o <<SymMiddot>> \o joinParts(Tail(parts))

\* [coeffPart, ...parts].filter(Boolean).join(SymMiddot) || '1'
monomialBody(coeffMag, parts) ==
  IF coeffMag = 1 /\ parts = << >> THEN <<"1">>
  ELSE joinParts((IF coeffMag # 1 THEN <<natToString(coeffMag)>> ELSE << >>) \o parts)

\* the coefficient of a builder's monomial is an integer
monomialToString(mono) ==
  (IF mono.coeff.n < 0 THEN <<"-">> ELSE << >>)
    \o monomialBody(Abs(mono.coeff.n),
                    monomialParts(mono.exps,
                                  SelectSeq(LowerAZ, LAMBDA c : <<c>> \in DOMAIN mono.exps),
                                  1))

\* { coeff: 1, exps }
UnitMonomial(exps) == [coeff |-> DOne, exps |-> exps]

MonomialPayload(mono, disallowNegative) ==
  [kind |-> "monomial", value |-> mono, disallowNegative |-> disallowNegative]

ExpressionPayload(expr, names, positiveOnly) ==
  [kind |-> "expression", expr |-> expr, vars |-> names, positiveOnly |-> positiveOnly]

BuiltTask(solution, explanation, payload) ==
  [solution |-> solution, explanation |-> explanation, payload |-> payload]

\* kind 'tf' of buildPowersTask: the claim chosen
powersClaim(index) ==
  BuiltTask(IF index >= 2 THEN <<"w", "a", "h", "r">> ELSE <<"f", "a", "l", "s", "c", "h">>,
            NoText, [kind |-> "boolean", value |-> index >= 2])

\* kind 'noNeg': { [base]: -exp, [other]: pickExp() }, the later key wins;
\* solution `${other}^${monomial.exps[other]} / ${base}^${exp}`
powersNoNeg(base, exp, other, promptExp, otherExp) ==
  BuiltTask(<<other, "^">> \o natToString(otherExp) \o <<" ", "/", " ", base, "^">>
              \o natToString(exp),
            <<"Negative Exponenten nach unten bringen.">>,
            MonomialPayload(UnitMonomial((<<other>> :> otherExp) @@ (<<base>> :> -exp)), TRUE))

\* kind 'zeroNeg'
powersZeroNeg(base, exp) ==
  BuiltTask(IF exp = 0 THEN <<"1">> ELSE <<"1", "/", base, "^">> \o natToString(Abs(exp)),
            NoText, MonomialPayload(UnitMonomial(<<base>> :> exp), FALSE))

\* a task whose solution is monomialToString(monomial)
powersMonomial(exps) ==
  BuiltTask(monomialToString(UnitMonomial(exps)), NoText,
            MonomialPayload(UnitMonomial(exps), FALSE))

\* kind 'prodPow': exps[left] = exp; exps[right] = isDiv ? -exp : exp
powersProdPow(exp, left, right, isDiv) ==
  powersMonomial((<<right>> :> (IF isDiv THEN -exp ELSE exp)) @@ (<<left>> :> exp))

\* what buildPowersTask returns once it has drawn v
buildPowersTaskReturn(v) ==
  CASE v[1] = 6 -> powersClaim(v[2])
    [] v[1] = 5 -> powersNoNeg(BaseAt(v[2]), v[3], BaseAt(v[4]), v[5], v[6])
    [] v[1] = 4 -> powersZeroNeg(BaseAt(v[2]), IF v[3] = 0 THEN -v[4] ELSE 0)
    [] v[1] = 3 -> powersProdPow(v[2], BaseAt(v[3]), BaseAt(v[4]), v[5] = 0)
    [] v[1] = 0 -> powersMonomial(<<BaseAt(v[2])>> :> (v[3] + v[4]))
    [] v[1] = 1 -> powersMonomial(<<BaseAt(v[2])>> :> (v[3] - v[4]))
    [] v[1] = 2 -> powersMonomial(<<BaseAt(v[2])>> :> (v[3] * v[4]))

\* m === 1 ? `${k}` : `${k === 1 ? '' : `${k}*`}sqrt(${m})`
sqrtSolution(form) ==
  IF form.m = 1 THEN natToString(form.k)
  ELSE (IF form.k = 1 THEN << >> ELSE natToString(form.k) \o <<"*">>)
         \o <<"s", "q", "r", "t", "(">> \o natToString(form.m) \o <<")">>

\* `a^(${p}/${q})`
rationalExponentText(p, q) ==
  <<"a", "^", "(">> \o natToString(p) \o <<"/">> \o natToString(q) \o <<")">>

\* the root sign with index q over a^p
rootText(p, q) ==
  <<SymSqrt, "[">> \o natToString(q) \o <<"]", "{", "a", "^">> \o natToString(p) \o <<"}">>

\* what buildRootsTask returns once it has drawn v
buildRootsTaskReturn(v) ==
  CASE v[1] = 2 -> BuiltTask(<<"a", ">", "=", "0">>, <<"Definitionsbereich">>,
                             ExpressionPayload(<<"a", ">", "=", "0">>, << >>, FALSE))
    [] v[1] = 3 -> BuiltTask(<<"w", "a", "h", "r">>, <<"Betrag">>,
                             [kind |-> "boolean", value |-> TRUE])
    [] v[1] = 1 -> BuiltTask(sqrtSolution(simplifySqrt(v[2])), <<"Ziehe Quadrate heraus">>,
                             ExpressionPayload(sqrtSolution(simplifySqrt(v[2])), << >>, FALSE))
    [] v[1] = 0 /\ v[4] = 0 ->
         BuiltTask(rationalExponentText(v[3], v[2]), NoText,
                   ExpressionPayload(rationalExponentText(v[3], v[2]), <<<<"a">>>>, TRUE))
    [] v[1] = 0 /\ v[4] = 1 ->
         BuiltTask(rootText(v[3], v[2]), NoText,
                   ExpressionPayload(rootText(v[3], v[2]), <<<<"a">>>>, TRUE))

\* the modes whose returned task is written out
SolutionModes == {"mathPowers", "mathRoots"}

builderReturn(mode, v) ==
  IF mode = "mathPowers" THEN buildPowersTaskReturn(v) ELSE buildRootsTaskReturn(v)

\* { ...task, mode, seed: seedUsed, nextSeed: rng.nextSeed } with the fields
\* of the task written out
mathTaskOf(task) == builderReturn(task.mode, task.draws) @@ task

\* the seeds of the tasks that are checked against their own solution: the
\* multiples of SeedStride up to MaxSolutionSeed of them, far enough apart
\* for the first draw to take every value
MaxSolutionSeed == 40
SeedStride == 1000

InitSolution ==
  /\ \E mode \in SolutionModes, difficulty \in Difficulties, n \in 0..MaxSolutionSeed :
       input = [mode |-> mode, difficulty |-> difficulty, seed |-> WideNumber(n * SeedStride)]
  /\ op = "none"
  /\ out = "none"

CallGenerateMathTask ==
  /\ op = "none"
  /\ op' = "generateTask"
  /\ out' = mathTaskOf(generateTask(input.mode, input.difficulty, input.seed))
  /\ UNCHANGED input

\* checkAnswer(task, task.solution)
CallCheckOwnSolution ==
  /\ op = "generateTask"
  /\ op' = "checkAnswer"
  /\ input' = [task |-> out, text |-> out.solution]
  /\ out' = checkAnswer(out, out.solution)

NextSolution ==
  \/ CallGenerateMathTask
  \/ CallCheckOwnSolution

SpecSolution == InitSolution /\ [][NextSolution]_vars

\* C23: every generated math task accepts its own displayed solution:
\* checkAnswer(task, task.solution).correct is true for every mode,
\* difficulty and seed.
C23_OwnSolutionAccepted ==
  op = "checkAnswer" => out.ok /\ out.value.correct

(***************************************************************************)
(* Trigonometric equations (trig-tasks.ts): parseAngle, the trigEquations  *)
(* branch of generateTrigTask and of checkTrigAnswer.  The shift of an     *)
(* equation, 0 or +-Math.PI / 6, is kept in units of pi/6; the prompt is   *)
(* kept as the values printed in it.  Texts hold whole numbers.            *)
(***************************************************************************)
\* text.replace(c, '') for one code unit c
removeFirst(s, c) ==
  SubSeq(s, 1, IndexOrEnd(s, c) - 1) \o SubSeq(s, IndexOrEnd(s, c) + 1, Len(s))

\* number of occurrences of c, text.split(c).length - 1
CountOf(s, c) == Cardinality({k \in DOMAIN s : s[k] = c})

\* the degree branch of parseAngle
parseAngleDeg(val) == IF val.finite THEN DegAngle(val.value) ELSE Null

\* the branch of parseAngle for a text with one pi: factor and q once read
parseAngleRad(factor, q) ==
  IF ~factor.finite THEN Null
  ELSE IF ~q.finite THEN Null
  ELSE IF q.value = 0 THEN Null
  ELSE RadAngle(normRational([n |-> factor.value, d |-> q.value]).value.n,
                normRational([n |-> factor.value, d |-> q.value]).value.d)

\* let factor = 1; if (left && left !== '+') factor = Number(left)
piFactor(left) == IF left # << >> /\ left # <<"+">> THEN Number(left) ELSE Finite(1)

\* let q = 1; if (right.startsWith('/')) q = Number(right.slice(1))
piDenominator(right) ==
  IF right # << >> /\ Head(right) = "/" THEN Number(Tail(right)) ELSE Finite(1)

\* the last branch of parseAngle: a plain number of pi
parseAnglePlain(num) == IF num.finite THEN RadAngle(num.value, 1) ELSE Null

parseAngleTrimmed(trimmed) ==
  IF trimmed = << >> THEN Null
  ELSE IF trimmed[Len(trimmed)] = SymDeg THEN parseAngleDeg(Number(removeFirst(trimmed, SymDeg)))
  ELSE IF trimmed = <<SymPi>> THEN RadAngle(1, 1)
  ELSE IF CountOf(trimmed, SymPi) = 1
  THEN parseAngleRad(piFactor(SplitFirst(trimmed, SymPi)),
                     piDenominator(SplitSecond(trimmed, SymPi)))
  ELSE parseAnglePlain(Number(trimmed))

parseAngle(text) == parseAngleTrimmed(trim(text))

\* q === 1 ? `${p}pi` : `${p}pi/${q}`
toRadString(p, q) ==
  IF q = 1 THEN numberToString(p) \o <<SymPi>>
  ELSE numberToString(p) \o <<SymPi, "/">> \o numberToString(q)

valuePool ==
  <<Zero, Half(1), Half(-1), Sqrt(2, 1, TRUE), Sqrt(2, -1, TRUE), Sqrt(3, 1, TRUE),
    Sqrt(3, -1, TRUE), One(1), One(-1)>>

funcs == <<"sin", "cos", "tan">>

candidateAngles ==
  <<RadAngle(0, 1), RadAngle(1, 6), RadAngle(5, 6), RadAngle(1, 4), RadAngle(3, 4),
    RadAngle(1, 3), RadAngle(2, 3), RadAngle(1, 2), RadAngle(3, 2), RadAngle(2, 1)>>

\* rng() > 0.5 for the state s the call has reached
MoreThanHalf(s) == s.hi > 32768 \/ (s.hi = 32768 /\ s.lo > 0)

\* funcEq === 'sin' ? valSet.sin : funcEq === 'cos' ? valSet.cos : valSet.tan
targetValOf(funcEq, valSet) ==
  IF funcEq = "sin" THEN valSet.sin ELSE IF funcEq = "cos" THEN valSet.cos ELSE valSet.tan

\* formatExact(targetVal) === formatExact(val)
isSolution(funcEq, val, ang) ==
  formatExact(targetValOf(funcEq, sinCosTanExact(ang).value)) = formatExact(val)

\* solutions.map(parseAngle(toRadString(p, q))).filter(Boolean)
normalizedSolutions(solutions) ==
  SelectSeq([k \in DOMAIN solutions |->
               parseAngle(toRadString(solutions[k].p, solutions[k].q))],
            LAMBDA a : a # Null)

\* texts.join('; ')
RECURSIVE joinSemicolon(_)
joinSemicolon(texts) ==
  IF texts = << >> THEN << >>
  ELSE IF Len(texts) = 1 THEN texts[1]
  ELSE texts[1] \o <<";", " ">> \o joinSemicolon(Tail(texts))

\* formatExact(val).replace('sqrt', the root sign)
rhsText(text) ==
  IF IncludesText(text, <<"s", "q", "r", "t">>)
  THEN SubSeq(text, 1, IndexOrEnd(text, "s") - 1) \o <<SymSqrt>>
         \o SubSeq(text, IndexOrEnd(text, "s") + 4, Len(text))
  ELSE text

\* the task returned for the values drawn
trigEquationsTask(funcEq, val, coeff, shift, normalized) ==
  [mode |-> "trigEquations",
   prompt |-> [func |-> funcEq, coeff |-> coeff, shift |-> shift,
               rhs |-> rhsText(formatExact(val).value)],
   solution |-> joinSemicolon([k \in DOMAIN normalized |->
                                 toRadString(normalized[k].p, normalized[k].q)]),
   solutions |-> normalized,
   funcEquation |-> funcEq,
   value |-> val,
   shift |-> shift]

trigEquationsSolve(funcEq, val, coeff, shift) ==
  trigEquationsTask(funcEq, val, coeff, shift,
                    normalizedSolutions(SelectSeq(candidateAngles,
                                                  LAMBDA a : isSolution(funcEq, val, a))))

\* difficulty === 'hard' && rng() > 0.5 ? randomChoice([1, -1], rng) * (Math.PI / 6) : 0
\* for the state s before these draws
trigEquationsShift(difficulty, funcEq, val, coeff, s) ==
  trigEquationsSolve(funcEq, val, coeff,
                     IF difficulty = "hard" /\ MoreThanHalf(lcgNext(s))
                     THEN randomChoice(<<1, -1>>, lcgNext(lcgNext(s))) ELSE 0)

\* difficulty === 'easy' ? 1 : randomChoice([1, 2, 3], rng)
trigEquationsCoeff(difficulty, funcEq, val, s) ==
  IF difficulty = "easy" THEN trigEquationsShift(difficulty, funcEq, val, 1, s)
  ELSE trigEquationsShift(difficulty, funcEq, val, randomChoice(<<1, 2, 3>>, lcgNext(s)),
                          lcgNext(s))

\* the value drawn from valuePool, for tan from the pool without -1
trigEquationsVal(difficulty, funcEq, s) ==
  trigEquationsCoeff(difficulty, funcEq,
                     IF funcEq = "tan"
                     THEN randomChoice(SelectSeq(valuePool,
                                                 LAMBDA v : v.kind # "one" \/ v.sign = 1), s)
                     ELSE randomChoice(valuePool, s),
                     s)

\* generateTrigTask('trigEquations', difficulty, seed): s = seed >>> 0
generateTrigTask(difficulty, seed) ==
  trigEquationsVal(difficulty, randomChoice(funcs, lcgNext(ToUint32(seed))),
                   lcgNext(lcgNext(ToUint32(seed))))

\* most seeds of an equation task, SeedStride apart
MaxTrigSeed == 60

InitTrig ==
  /\ \E difficulty \in Difficulties, n \in 0..MaxTrigSeed :
       input = [difficulty |-> difficulty, seed |-> n * SeedStride]
  /\ op = "none"
  /\ out = "none"

CallGenerateTrigTask ==
  /\ op = "none"
  /\ op' = "generateTrigTask"
  /\ out' = generateTrigTask(input.difficulty, input.seed)
  /\ UNCHANGED input

\* `r${a.p}/${a.q}`, the key of an angle in radians
toKey(a) == <<"r">> \o numberToString(a.p) \o <<"/">> \o numberToString(a.q)

\* text.split(c) for one code unit c
RECURSIVE splitAt(_, _)
splitAt(s, c) ==
  IF ~Includes(s, c) THEN <<s>>
  ELSE <<SplitFirst(s, c)>> \o splitAt(SubSeq(s, IndexOrEnd(s, c) + 1, Len(s)), c)

\* userInput.split(';').map((p) => p.trim()).filter(Boolean)
answerParts(userInput) ==
  SelectSeq([k \in DOMAIN splitAt(userInput, ";") |-> trim(splitAt(userInput, ";")[k])],
            LAMBDA part : part # << >>)

\* { kind: 'rad', ...(a.kind === 'rad' ? a : { p: a.value, q: 180 }) }
asRad(a) == IF a.kind = "rad" THEN a ELSE RadAngle(a.value, 180)

\* parts.map(parseAngle).filter(Boolean).map(asRad)
parsedAngles(parts) ==
  [k \in DOMAIN SelectSeq([j \in DOMAIN parts |-> parseAngle(parts[j])],
                          LAMBDA a : a # Null) |->
     asRad(SelectSeq([j \in DOMAIN parts |-> parseAngle(parts[j])],
                     LAMBDA a : a # Null)[k])]

\* the comparison of the parsed angles with task.solutions
checkTrigEquation(task, parsed) ==
  IF Len(parsed) # Len(task.solutions) THEN [correct |-> FALSE]
  ELSE [correct |-> \A k \in DOMAIN parsed :
                      \E e \in DOMAIN task.solutions :
                        toKey(task.solutions[e]) = toKey(parsed[k])]

\* checkTrigAnswer for a task of mode trigEquations
checkTrigAnswer(task, userInput) ==
  IF answerParts(userInput) = << >> THEN [correct |-> FALSE]
  ELSE checkTrigEquation(task, parsedAngles(answerParts(userInput)))

\* one item of a set literal: a number where Number reads one, else the text
setItem(item) == IF Number(item).finite THEN Number(item) ELSE [finite |-> FALSE, text |-> item]

\* String(x) for an item
itemString(x) == IF x.finite THEN numberToString(x.value) ELSE x.text

\* trimmed.replace(/^{|}$/g, '')
stripBraces(t) ==
  SubSeq(t, IF t # << >> /\ Head(t) = "{" THEN 2 ELSE 1,
         IF Len(t) >= 1 /\ t[Len(t)] = "}" THEN Len(t) - 1 ELSE Len(t))

\* inner.split(',').map(trim).filter(Boolean).map(Number or the text)
setItems(inner) ==
  IF inner = << >> THEN << >>
  ELSE [k \in DOMAIN SelectSeq([j \in DOMAIN splitAt(inner, ",") |->
                                  trim(splitAt(inner, ",")[j])],
                               LAMBDA part : part # << >>) |->
          setItem(SelectSeq([j \in DOMAIN splitAt(inner, ",") |->
                               trim(splitAt(inner, ",")[j])],
                            LAMBDA part : part # << >>)[k])]

parseSetLiteral(text) == setItems(stripBraces(trim(text)))

compareSetLiterals(a, b) ==
  IF Len(a) # Len(b) THEN FALSE
  ELSE \A k \in DOMAIN b : \E j \in DOMAIN a : itemString(a[j]) = itemString(b[k])

\* `{${values.join(',')}}` as the user types it
RECURSIVE joinComma(_)
joinComma(texts) ==
  IF texts = << >> THEN << >>
  ELSE IF Len(texts) = 1 THEN texts[1]
  ELSE texts[1] \o <<",">> \o joinComma(Tail(texts))

SetLiteralText(values) ==
  <<"{">> \o joinComma([k \in DOMAIN values |-> numberToString(values[k])]) \o <<"}">>

\* longest list of angles or elements in an answer, largest element
MaxAnswerLen == 2
MaxElement == 3

\* the angles a user types, each with the angle it denotes in units of
\* pi/12 (-1 for a text that is no angle): the candidates of the generator
\* as it prints them, special angles it leaves out, other spellings
AnswerAngles ==
  {[text |-> toRadString(candidateAngles[k].p, candidateAngles[k].q),
    twelfths |-> (12 * candidateAngles[k].p) \div candidateAngles[k].q] :
     k \in DOMAIN candidateAngles}
    \cup {[text |-> <<SymPi>>, twelfths |-> 12],
          [text |-> <<"7", SymPi, "/", "6">>, twelfths |-> 14],
          [text |-> <<"1", "1", SymPi, "/", "6">>, twelfths |-> 22],
          [text |-> <<SymPi, "/", "6">>, twelfths |-> 2],
          [text |-> <<"5", SymPi, "/", "4">>, twelfths |-> 15],
          [text |-> <<"3", "0", SymDeg>>, twelfths |-> 2],
          [text |-> <<"x">>, twelfths |-> -1]}

AnswerLists == UNION {[1..n -> AnswerAngles] : n \in 0..MaxAnswerLen}

\* the lists of elements a user types, and the expected answers, which are
\* made from a Set and hold no element twice
ElementLists == UNION {[1..n -> 1..MaxElement] : n \in 0..MaxAnswerLen}

ExpectedLists ==
  {list \in ElementLists : \A i, j \in DOMAIN list : list[i] = list[j] => i = j}

\* the answer to the task on the screen
CallCheckTrigAnswer ==
  /\ op = "generateTrigTask"
  /\ op' = "checkTrigAnswer"
  /\ \E answer \in AnswerLists :
       /\ input' = [task |-> out, answer |-> answer,
                    text |-> joinSemicolon([k \in DOMAIN answer |-> answer[k].text])]
       /\ out' = checkTrigAnswer(out, joinSemicolon([k \in DOMAIN answer |-> answer[k].text]))

\* compareSetLiterals(expectedAnswer, parseSetLiteral(text)) of evaluateInput
CallCompareSetLiterals ==
  /\ op = "none"
  /\ op' = "compareSetLiterals"
  /\ \E expected \in ExpectedLists, typed \in ElementLists :
       /\ input' = [expected |-> expected, typed |-> typed, text |-> SetLiteralText(typed)]
       /\ out' = compareSetLiterals([k \in DOMAIN expected |-> Finite(expected[k])],
                                    parseSetLiteral(SetLiteralText(typed)))

NextTrig ==
  \/ CallGenerateTrigTask
  \/ CallCheckTrigAnswer
  \/ CallCompareSetLiterals

SpecTrig == InitTrig /\ [][NextTrig]_vars

\* the special angles of [0, 2 pi) in units of pi/12
SpecialTwelfths == {j \in 0..23 : j % 2 = 0 \/ j % 3 = 0}

\* a value that is none of the pool
OtherValue == [kind |-> "other"]

\* the exact sine, cosine and tangent of j * pi/12 where it is one of the
\* standard values 0, +-1/2, +-sqrt(2)/2, +-sqrt(3)/2, +-1
SinAt(j) == IF (j % 12) \in {1, 5, 7, 11} THEN OtherValue ELSE StandardSin(j)
CosAt(j) == SinAt(j + 6)
TanAt(j) ==
  CASE j % 12 = 0 -> Zero
    [] j % 12 = 3 -> One(1)
    [] j % 12 = 9 -> One(-1)
    [] j % 12 = 6 -> Undef
    [] OTHER -> OtherValue

\* func(coeff * x - shift) = value at x = j * pi/12
SolvesAt(task, j) ==
  (CASE task.prompt.func = "sin" -> SinAt(task.prompt.coeff * j - 2 * task.prompt.shift)
     [] task.prompt.func = "cos" -> CosAt(task.prompt.coeff * j - 2 * task.prompt.shift)
     [] OTHER -> TanAt(task.prompt.coeff * j - 2 * task.prompt.shift))
    = task.value

\* C24: the stored solutions of a trigEquations task are exactly the special
\* angles x of [0, 2 pi) with func(coeff * x - shift) = value for the coeff
\* and shift of the prompt: every stored angle lies in [0, 2 pi) and solves
\* the equation, and no special angle that solves it is missing.
C24_EquationSolutions ==
  op = "generateTrigTask" =>
    /\ \A k \in DOMAIN out.solutions :
         /\ out.solutions[k].kind = "rad"
         /\ out.solutions[k].q > 0
         /\ 0 <= out.solutions[k].p /\ out.solutions[k].p < 2 * out.solutions[k].q
         /\ (12 * out.solutions[k].p) % out.solutions[k].q = 0
         /\ SolvesAt(out, (12 * out.solutions[k].p) \div out.solutions[k].q)
    /\ \A j \in SpecialTwelfths :
         SolvesAt(out, j) =>
           \E k \in DOMAIN out.solutions :
             12 * out.solutions[k].p = j * out.solutions[k].q

\* the set of elements of a list
ElementsOf(list) == {list[k] : k \in DOMAIN list}

\* C25: a list answer is accepted iff it denotes the same set as the
\* expected answer: checkTrigAnswer (angles separated by ';') and
\* compareSetLiterals return true exactly when every expected element occurs
\* in the user's list and every user element is expected; a list that
\* repeats one expected element in place of another is rejected.
C25_SameSetAccepted ==
  /\ op = "checkTrigAnswer" /\ input.answer # << >> =>
       (out.correct <=>
          {input.answer[k].twelfths : k \in DOMAIN input.answer}
            = {(12 * input.task.solutions[k].p) \div input.task.solutions[k].q :
                 k \in DOMAIN input.task.solutions})
  /\ op = "compareSetLiterals" =>
       (out <=> ElementsOf(input.typed) = ElementsOf(input.expected))

(***************************************************************************)
(* The mask comparison of the diagram tasks (main.ts, evaluateInput): the  *)
(* mask of the expected term and the mask of the term typed, over the sets *)
(* of the task.                                                            *)
(***************************************************************************)
\* largest number of operators of the expected and of the typed term
MaxMaskPairConn == 1

\* const setsArray: the sets of a task with two or three sets
TaskSetLists == {<<"A", "B">>, <<"A", "B", "C">>}

\* the terms over the sets of a list, the empty set and the universe
TermsOver(sets) ==
  SetExprsUpTo({SetVarNode(sets[k]) : k \in DOMAIN sets}
                 \cup {SetConstNode(FALSE), SetConstNode(TRUE)},
               MaxMaskPairConn)

InitMaskPair ==
  /\ \E s \in TaskSetLists :
       \E l \in TermsOver(s), r \in TermsOver(s) :
         input = [left |-> l, right |-> r, sets |-> s]
  /\ op = "none"
  /\ out = "none"

\* setTask.type === 'venn_expr': expected is the mask of the term of the
\* task, userMask the mask of the term typed, ok = userMask === expected
CallEvaluateInput ==
  /\ op = "none"
  /\ op' = "evaluateInput"
  /\ out' = [expected |-> computeRegionMaskFromExpr(input.left, input.sets),
             userMask |-> computeRegionMaskFromExpr(input.right, input.sets),
             ok |-> computeRegionMaskFromExpr(input.right, input.sets)
                      = computeRegionMaskFromExpr(input.left, input.sets)]
  /\ UNCHANGED input

\* the truth-table oracle on the same two terms
CallAreSetExprEquivalentOfPair ==
  /\ op = "evaluateInput"
  /\ op' = "areSetExprEquivalentOfPair"
  /\ out' = [ok |-> out.ok, equivalent |-> areSetExprEquivalent(input.left, input.right)]
  /\ UNCHANGED input

NextMaskPair ==
  \/ CallEvaluateInput
  \/ CallAreSetExprEquivalentOfPair

SpecMaskPair == InitMaskPair /\ [][NextMaskPair]_vars

\* C26: for set expressions L and R that mention only sets of the list
\* ([A,B] or [A,B,C]) the masks computeRegionMaskFromExpr(L, sets) and
\* computeRegionMaskFromExpr(R, sets) are equal iff areSetExprEquivalent(L, R).
C26_MaskEqualityIsEquivalence ==
  op = "areSetExprEquivalentOfPair" => (out.ok <=> out.equivalent)

\* two different terms that denote the same set have equal masks over three
\* sets and are equivalent; they mention different sets
C26_Witness ==
  /\ op = "areSetExprEquivalentOfPair"
  /\ input.sets = <<"A", "B", "C">>
  /\ input.left = SetBinaryNode("diff", SetVarNode("C"), SetVarNode("C"))
  /\ input.right = SetBinaryNode("inter", SetVarNode("A"), SetConstNode(FALSE))
  /\ out.ok /\ out.equivalent

(***************************************************************************)
(* pickTask in a generator mode (main.ts): the task comes from the seed    *)
(* stored for the mode, and the seed of the next task is stored in its     *)
(* place.  Two runs of the program start from the same applied seed.       *)
(***************************************************************************)
\* Math.floor(Math.random() * 10_000_000) is below this limit
RandomSeedLimit == 10000000

\* largest multiple of SeedStride that Math.random gives in the model, and the
\* largest that is applied as a seed
MaxRandom == 2
MaxAppliedSeed == 4
\* number of tasks of a run
MaxPicks == 3

\* the values Math.floor(Math.random() * 10_000_000) takes in the model
RandomSeeds == {n * SeedStride : n \in 0..MaxRandom} \cap 0..(RandomSeedLimit - 1)

PickModes == MathModes \cup {"trigEquations"}

isTrigMode(mode) == mode = "trigEquations"

\* generatorSeedState[mode] = mathTask.nextSeed
pickMathTask(mathTask) == [task |-> mathTask, seed |-> mathTask.nextSeed]

\* pickTask(mode) for a stored seed that is not null: the task and the seed
\* stored for the next one; random is the value of Math.random scaled
pickTask(mode, difficulty, seed, random) ==
  IF isTrigMode(mode)
  THEN [task |-> generateTrigTask(difficulty, seed), seed |-> random]
  ELSE pickMathTask(generateTask(mode, difficulty, seed))

\* state.task = pickTask(state.mode), the tasks of a run kept in order
appendPick(run, picked) == [seed |-> picked.seed, tasks |-> Append(run.tasks, picked.task)]

runPick(mode, difficulty, run, random) ==
  appendPick(run, pickTask(mode, difficulty, run.seed, random))

\* generatorSeedState[state.mode] = valid, a finite number typed in the field
appliedSeed(mode, n) == IF isTrigMode(mode) THEN n ELSE WideNumber(n)

InitPick ==
  /\ \E mode \in PickModes, difficulty \in Difficulties, n \in 0..MaxAppliedSeed :
       input = [mode |-> mode, difficulty |-> difficulty, seed |-> n * SeedStride]
  /\ op = "none"
  /\ out = "none"

\* applySeedForCurrentMode in both runs, with the same text in the seed field
CallApplySeedForCurrentMode ==
  /\ op = "none"
  /\ op' = "applySeedForCurrentMode"
  /\ \E ra \in RandomSeeds, rb \in RandomSeeds :
       out' = [a |-> runPick(input.mode, input.difficulty,
                             [seed |-> appliedSeed(input.mode, input.seed), tasks |-> << >>], ra),
               b |-> runPick(input.mode, input.difficulty,
                             [seed |-> appliedSeed(input.mode, input.seed), tasks |-> << >>], rb)]
  /\ UNCHANGED input

\* resetTask ('Neue Aufgabe') in both runs
CallResetTask ==
  /\ op \in {"applySeedForCurrentMode", "resetTask"}
  /\ Len(out.a.tasks) < MaxPicks
  /\ op' = "resetTask"
  /\ \E ra \in RandomSeeds, rb \in RandomSeeds :
       out' = [a |-> runPick(input.mode, input.difficulty, out.a, ra),
               b |-> runPick(input.mode, input.difficulty, out.b, rb)]
  /\ UNCHANGED input

NextPick ==
  \/ CallApplySeedForCurrentMode
  \/ CallResetTask

SpecPick == InitPick /\ [][NextPick]_vars

\* C28: with a seed applied in a generator mode and a fixed difficulty, two
\* runs that start from the same applied seed produce the same first, second,
\* third ... task, and the seed stored for the following task is the same in
\* both (it is derived from the generator state of the task before).
C28_SameSeedSameTasks ==
  op # "none" => out.a.tasks = out.b.tasks /\ out.a.seed = out.b.seed

(***************************************************************************)
(* The task timer (main.ts).  out is state.timer; input holds what the     *)
(* page does not own: performance.now(), document.hidden and the intervals *)
(* the window has scheduled, and beside them what the property needs       *)
(* remembered: whether the attempt is finalized, the elapsed time read at  *)
(* that moment, and the time the page was visible since startTimer.        *)
(***************************************************************************)
\* the clock runs from 1 to this value, in steps of one
MaxNow == 6
\* intervalId: null
NoInterval == 0
\* target of the timer before the first task, and another target of a task
DefaultTarget == 60
LongTarget == 90

TargetSeconds == {DefaultTarget, LongTarget}

\* window.setInterval returns an id that is not scheduled
setInterval(intervals) == CHOOSE id \in 1..(Cardinality(intervals) + 1) : id \notin intervals

\* clearInterval(id)
clearInterval(intervals, id) == intervals \ {id}

getElapsedMs(timer, now) ==
  timer.accumulated + (IF timer.running THEN now - timer.start ELSE 0)

\* stopTimer: the timer and the intervals of the window after it
stopTimer(timer, env) ==
  [timer |-> [timer EXCEPT !.accumulated = getElapsedMs(timer, env.now),
                           !.intervalId = NoInterval,
                           !.running = FALSE],
   intervals |-> IF timer.intervalId # NoInterval
                 THEN clearInterval(env.intervals, timer.intervalId)
                 ELSE env.intervals]

\* the timer startTimer assigns once stopTimer has run
startedTimer(stopped, now, targetSeconds) ==
  [timer |-> [start |-> now, accumulated |-> 0, running |-> TRUE,
              target |-> targetSeconds, intervalId |-> setInterval(stopped.intervals)],
   intervals |-> stopped.intervals \cup {setInterval(stopped.intervals)}]

startTimer(timer, env, targetSeconds) ==
  startedTimer(stopTimer(timer, env), env.now, targetSeconds)

pauseTimer(timer, env) ==
  IF ~timer.running THEN [timer |-> timer, intervals |-> env.intervals]
  ELSE [timer |-> [timer EXCEPT !.accumulated = getElapsedMs(timer, env.now),
                                !.running = FALSE,
                                !.intervalId = NoInterval],
        intervals |-> IF timer.intervalId # NoInterval
                      THEN clearInterval(env.intervals, timer.intervalId)
                      ELSE env.intervals]

resumeTimer(timer, env) ==
  IF timer.running THEN [timer |-> timer, intervals |-> env.intervals]
  ELSE [timer |-> [timer EXCEPT !.start = env.now,
                                !.running = TRUE,
                                !.intervalId = IF timer.intervalId = NoInterval
                                               THEN setInterval(env.intervals)
                                               ELSE timer.intervalId],
        intervals |-> IF timer.intervalId = NoInterval
                      THEN env.intervals \cup {setInterval(env.intervals)}
                      ELSE env.intervals]

\* the visibilitychange listener once document.hidden has the value hidden
visibilityListener(timer, env, hidden) ==
  IF hidden THEN pauseTimer(timer, env)
  ELSE IF timer.start # 0 THEN resumeTimer(timer, env)
  ELSE [timer |-> timer, intervals |-> env.intervals]

\* const state = { ..., timer: { start: 0, accumulated: 0, running: false,
\* target: 60, intervalId: null } } on a visible page
InitTimer ==
  /\ input = [now |-> 1, hidden |-> FALSE, intervals |-> {},
              finalized |-> FALSE, finalElapsed |-> 0, visibleMs |-> 0]
  /\ op = "none"
  /\ out = [start |-> 0, accumulated |-> 0, running |-> FALSE,
            target |-> DefaultTarget, intervalId |-> NoInterval]

\* renderTask on a visible page: startTimer(target)
CallStartTimer ==
  /\ ~input.hidden
  /\ \E target \in TargetSeconds :
       /\ out' = startTimer(out, input, target).timer
       /\ input' = [input EXCEPT !.intervals = startTimer(out, input, target).intervals,
                                 !.finalized = FALSE,
                                 !.finalElapsed = 0,
                                 !.visibleMs = 0]
  /\ op' = "startTimer"

\* showFeedback on a visible page with a task shown: finalizeAttempt
CallFinalizeAttempt ==
  /\ ~input.hidden
  /\ out.start # 0
  /\ out' = stopTimer(out, input).timer
  /\ input' = [input EXCEPT !.intervals = stopTimer(out, input).intervals,
                            !.finalized = TRUE,
                            !.finalElapsed = getElapsedMs(out, input.now)]
  /\ op' = "finalizeAttempt"

\* the page is hidden or shown again and the listener runs
VisibilityChange ==
  /\ out' = visibilityListener(out, input, ~input.hidden).timer
  /\ input' = [input EXCEPT !.hidden = ~input.hidden,
                            !.intervals = visibilityListener(out, input, ~input.hidden).intervals]
  /\ op' = "visibilitychange"

\* performance.now() grows by one
Tick ==
  /\ input.now < MaxNow
  /\ input' = [input EXCEPT !.now = input.now + 1,
                            !.visibleMs = IF input.hidden \/ input.finalized \/ out.start = 0
                                          THEN input.visibleMs ELSE input.visibleMs + 1]
  /\ op' = "tick"
  /\ UNCHANGED out

NextTimer ==
  \/ CallStartTimer
  \/ CallFinalizeAttempt
  \/ VisibilityChange
  \/ Tick

SpecTimer == InitTimer /\ [][NextTimer]_vars

\* C29: once an attempt is finalized the timer stays stopped under any later
\* visibilitychange events (timer.running false, no interval scheduled, the
\* elapsed time as it was) until startTimer is called for the next task;
\* while a task is running, the elapsed time is the time the page was visible.
C29_TimerStaysStopped ==
  /\ input.finalized =>
       /\ ~out.running
       /\ out.intervalId = NoInterval
       /\ input.intervals = {}
       /\ getElapsedMs(out, input.now) = input.finalElapsed
  /\ ~input.finalized /\ out.start # 0 => getElapsedMs(out, input.now) = input.visibleMs

(***************************************************************************)
(* The interactive Venn diagram (createVennDiagram) and its use by         *)
(* setupVennInteractive.  out holds maskState, the region rectangles in    *)
(* overlays with their dataset and 'active' class, and state.vennMask.     *)
(***************************************************************************)
REGION_META_2 ==
  <<[bit |-> 0, label |-> "outside", clip |-> << >>],
    [bit |-> 1, label |-> "B", clip |-> << >>],
    [bit |-> 2, label |-> "A", clip |-> << >>],
    [bit |-> 3, label |-> "A&B", clip |-> <<"clipA", "clipB">>]>>

REGION_META_3 ==
  <<[bit |-> 0, label |-> "outside", clip |-> << >>],
    [bit |-> 1, label |-> "C", clip |-> << >>],
    [bit |-> 2, label |-> "B", clip |-> << >>],
    [bit |-> 3, label |-> "B&C", clip |-> <<"clipB", "clipC">>],
    [bit |-> 4, label |-> "A", clip |-> << >>],
    [bit |-> 5, label |-> "A&C", clip |-> <<"clipA", "clipC">>],
    [bit |-> 6, label |-> "A&B", clip |-> <<"clipA", "clipB">>],
    [bit |-> 7, label |-> "A&B&C", clip |-> <<"clipA", "clipB", "clipC">>]>>

regionMetaForSets(count) == IF count = 2 THEN REGION_META_2 ELSE REGION_META_3

\* createRegion: the rectangle pushed to overlays; with more than one clip the
\* function returns before rect.dataset.bit = String(meta.bit)
createRegion(meta) ==
  [bit |-> meta.bit,
   dataset |-> IF Len(meta.clip) > 1 THEN {}
               ELSE {[key |-> "bit", value |-> numberToString(meta.bit)]}]

\* Number(target.dataset.bit), NaN for a key that is not set
datasetBit(node) ==
  IF \E e \in node.dataset : e.key = "bit"
  THEN Number((CHOOSE e \in node.dataset : e.key = "bit").value)
  ELSE NaN

\* mask ^ (1 << bit)
xorBit(mask, bit) == IF BitSet(mask, bit) THEN mask - Pow2(bit) ELSE mask + Pow2(bit)

\* setMask(mask): maskState and the class 'active' of every overlay
setMask(diagram, mask) ==
  [diagram EXCEPT !.maskState = mask,
                  !.active = {diagram.overlays[k].bit : k \in
                                {j \in DOMAIN diagram.overlays :
                                   BitSet(mask, diagram.overlays[j].bit)}}]

\* the click listener of regionGroup for the target clicked, once the bit has
\* been read from it; onMaskChange stores the mask in state.vennMask
clickWithBit(diagram, bit) ==
  IF ~bit.finite THEN diagram
  ELSE [setMask(diagram, xorBit(diagram.maskState, bit.value))
          EXCEPT !.vennMask = xorBit(diagram.maskState, bit.value)]

click(diagram, target) == clickWithBit(diagram, datasetBit(target))

\* createVennDiagram({sets, interactive: true, ...}) followed by setMask(0),
\* with state.vennMask = 0
createVennDiagram(sets) ==
  setMask([maskState |-> 0, active |-> {}, vennMask |-> 0,
           overlays |-> [k \in DOMAIN regionMetaForSets(sets) |->
                           createRegion(regionMetaForSets(sets)[k])]], 0)

\* no region clicked yet
NoBit == -1

InitVenn ==
  /\ \E sets \in {2, 3} : input = [sets |-> sets, bit |-> NoBit, before |-> 0]
  /\ op = "none"
  /\ out = "none"

CallSetupVennInteractive ==
  /\ op = "none"
  /\ op' = "setupVennInteractive"
  /\ out' = createVennDiagram(input.sets)
  /\ UNCHANGED input

\* a click whose target is the rectangle of one region of the diagram
ClickRegion ==
  /\ op \in {"setupVennInteractive", "click"}
  /\ \E k \in DOMAIN out.overlays :
       /\ input' = [input EXCEPT !.bit = out.overlays[k].bit, !.before = out.maskState]
       /\ out' = click(out, out.overlays[k])
  /\ op' = "click"

NextVenn ==
  \/ CallSetupVennInteractive
  \/ ClickRegion

SpecVenn == InitVenn /\ [][NextVenn]_vars

\* C30: in an interactive diagram with 2 or 3 sets a click on the region with
\* bit b flips exactly bit b of the mask, every other bit staying as it was,
\* for every region including the intersections, and reports the new mask
\* through onMaskChange, so that getMask equals the last mask reported.
C30_ClickFlipsBit ==
  /\ op = "click" => out.maskState = xorBit(input.before, input.bit)
  /\ op # "none" => out.vennMask = out.maskState

====
